---- MODULE Spec2Model ----
(***************************************************************************)
(* Regional missense constraint (rmc): the command-line stages and the     *)
(* search utilities, as state machines.                                    *)
(*                                                                         *)
(* Conventions.  A chi-square value is an integer, ten times the float of  *)
(* the program (10.8 is 108, 6.6 is 66, 7.82 is 78).  A Hail value that    *)
(* may be missing is a set with at most one element ({} is missing).  A    *)
(* Python exception is recorded by its class name in an `exc` variable     *)
(* ("" while none was raised).  Every component has its own variables and  *)
(* its own specification; the variables of the other components stay at    *)
(* their idle values.                                                      *)
(***************************************************************************)
EXTENDS Integers, Sequences, FiniteSets, TLC

\* ------------------------------------------------------------------------
\* Bounds of the model
\* ------------------------------------------------------------------------
MaxRows == 3
MaxPos == 3
MaxWindow == 2
MaxTranscripts == 3
MaxGroupSize == 2
MaxTables == 2
MaxBreakNum == 4
MaxMinNumObs == 2

\* Chi-square values of the rows (x10) and the thresholds a caller passes.
ChisqVals == {0, 66, 78, 108, 138}
Thresholds == {66, 108}

\* Largest chisq of one window placement in the two-breaks search (x10).
WindowChisqVals == {78, 138}

\* A possibly-missing chi-square value.
OptChisq == {{}} \cup {{v} : v \in ChisqVals}

\* ------------------------------------------------------------------------
\* State
\* ------------------------------------------------------------------------
\* search_for_break: the table's chisq column, the threshold, the result.
VARIABLES sfb_pc, sfb_ht, chisq_threshold, sfb_result

\* search_for_two_breaks: its locals.
VARIABLES s2b_pc, s2b_positions, s2b_threshold, break_size, window_chisq, s2b_section,
          start_pos, end_pos, best_chisq, breakpoints, s2b_result

\* run_batches_dataproc: the arguments, the loop's locals, the output
\* tables in storage, the exception that ended main, the log copy.
VARIABLES rbd_pc, rbd_args, transcript_groups, counter, rbd_existing,
          rbd_files, rbd_processed, rbd_exc, rbd_log_copied

\* verify_transcripts: the scheduled sets of the round, the success markers
\* in storage, the exception that ended main, the warning, the log copy.
VARIABLES vt_pc, under_threshold, over_threshold, success_markers, vt_transcripts,
          missing_transcripts, vt_exc, vt_ttn_warned, vt_log_copied

\* merge_hts: the arguments, the listing of the round's bucket, the loop's
\* locals, the tables in storage, the exception that ended main, the log copy.
VARIABLES mh_pc, mh_args, temp_ht_paths, mh_index, ht_count, intermediate_hts,
          mh_files, mh_exc, mh_log_copied

\* regional_constraint, first and additional breaks: the arguments, the tables
\* in storage, their transcripts and their global annotations, context_ht and
\* its break_list, the
\* transcripts with an
\* is_break row, break_ht, the round's section chisq, the round counter, the
\* global annotations of context_ht, the exception that ended main, the log copy.
VARIABLES bs_pc, bs_args, bs_files, bs_tables, bs_context, bs_is_break, break_ht,
          section_chisq, break_num, bs_globals, bs_break_list, bs_table_globals,
          bs_exc, bs_log_copied

\* regional_constraint, finalize: the arguments, what earlier stages left, the
\* locals of the phase, the breaks.ht and no_breaks.ht checkpoints, the
\* exception that ended main, the log copy.
VARIABLES fin_pc, fin_args, fin_env, outlier_transcripts, fin_context_ht,
          multiple_breaks_ht, simul_break_transcripts, n_breaks, fin_checkpoints,
          fin_exc, fin_log_copied

\* regional_constraint, simultaneous breaks: the arguments, the tables in
\* storage, the rows of not_one_break, ht, min_window_size, the grouped table,
\* whether a search ran, the exception that ended main, the log copy.
VARIABLES sim_pc, sim_args, sim_files, sim_not_one_break, sim_ht, min_window_size,
          sim_grouped, sim_searched, sim_exc, sim_log_copied

\* calculate_mpc: the arguments, the calls main made, the log copy.
VARIABLES mpc_pc, mpc_args, mpc_calls, mpc_log_copied

\* Expression builders: the call (function name and arguments) and its result.
VARIABLES fn_pc, fn_call, fn_result

\* Two concurrent run_batches_dataproc workers: each worker's position, arguments,
\* group index and exception; the shared output tables and who wrote each.
VARIABLES wk_pc, wk_args, wk_counter, wk_files, wk_writers, wk_exc

sfbVars == <<sfb_pc, sfb_ht, chisq_threshold, sfb_result>>
s2bVars == <<s2b_pc, s2b_positions, s2b_threshold, break_size, window_chisq, s2b_section,
             start_pos, end_pos, best_chisq, breakpoints, s2b_result>>

rbdVars == <<rbd_pc, rbd_args, transcript_groups, counter, rbd_existing,
             rbd_files, rbd_processed, rbd_exc, rbd_log_copied>>

vtVars == <<vt_pc, under_threshold, over_threshold, success_markers, vt_transcripts,
            missing_transcripts, vt_exc, vt_ttn_warned, vt_log_copied>>

mhVars == <<mh_pc, mh_args, temp_ht_paths, mh_index, ht_count, intermediate_hts,
            mh_files, mh_exc, mh_log_copied>>

bsVars == <<bs_pc, bs_args, bs_files, bs_tables, bs_context, bs_is_break, break_ht,
            section_chisq, break_num, bs_globals, bs_break_list, bs_table_globals,
            bs_exc, bs_log_copied>>

finVars == <<fin_pc, fin_args, fin_env, outlier_transcripts, fin_context_ht,
             multiple_breaks_ht, simul_break_transcripts, n_breaks, fin_checkpoints,
             fin_exc, fin_log_copied>>

simVars == <<sim_pc, sim_args, sim_files, sim_not_one_break, sim_ht,
             min_window_size, sim_grouped, sim_searched, sim_exc, sim_log_copied>>

mpcVars == <<mpc_pc, mpc_args, mpc_calls, mpc_log_copied>>

fnVars == <<fn_pc, fn_call, fn_result>>

wkVars == <<wk_pc, wk_args, wk_counter, wk_files, wk_writers, wk_exc>>

vars == <<sfbVars, s2bVars, rbdVars, vtVars, mhVars, bsVars, finVars, simVars, mpcVars, fnVars, wkVars>>

\* What each component leaves alone.
sfbOthers == <<s2bVars, rbdVars, vtVars, mhVars, bsVars, finVars, simVars, mpcVars, fnVars, wkVars>>
s2bOthers == <<sfbVars, rbdVars, vtVars, mhVars, bsVars, finVars, simVars, mpcVars, fnVars, wkVars>>
rbdOthers == <<sfbVars, s2bVars, vtVars, mhVars, bsVars, finVars, simVars, mpcVars, fnVars, wkVars>>
vtOthers == <<sfbVars, s2bVars, rbdVars, mhVars, bsVars, finVars, simVars, mpcVars, fnVars, wkVars>>
mhOthers == <<sfbVars, s2bVars, rbdVars, vtVars, bsVars, finVars, simVars, mpcVars, fnVars, wkVars>>
bsOthers == <<sfbVars, s2bVars, rbdVars, vtVars, mhVars, finVars, simVars, mpcVars, fnVars, wkVars>>
finOthers == <<sfbVars, s2bVars, rbdVars, vtVars, mhVars, bsVars, simVars, mpcVars, fnVars, wkVars>>
simOthers == <<sfbVars, s2bVars, rbdVars, vtVars, mhVars, bsVars, finVars, mpcVars, fnVars, wkVars>>
mpcOthers == <<sfbVars, s2bVars, rbdVars, vtVars, mhVars, bsVars, finVars, simVars, fnVars, wkVars>>
fnOthers == <<sfbVars, s2bVars, rbdVars, vtVars, mhVars, bsVars, finVars, simVars, mpcVars, wkVars>>
wkOthers == <<sfbVars, s2bVars, rbdVars, vtVars, mhVars, bsVars, finVars, simVars, mpcVars, fnVars>>

\* ------------------------------------------------------------------------
\* search_for_break (rmc/utils/constraint.py)
\* ------------------------------------------------------------------------
\* hl.agg.max: the largest non-missing value, missing when there is none.
AggMax(vals) ==
    IF vals = {} THEN {} ELSE {CHOOSE m \in vals : \A v \in vals : v <= m}

\* The non-missing chisq values of the rows of ht.
DefinedChisq(ht) == UNION {ht[i] : i \in DOMAIN ht}

MeetsThresholdStrict(max_chisq, threshold) == max_chisq > threshold

\* `max_chisq >= chisq_threshold`
MeetsThreshold(max_chisq, threshold) == max_chisq >= threshold

\* Only the first of the rows holding the maximum chisq.
SearchForFirstBreak(ht, threshold) ==
    LET max_chisq == AggMax(DefinedChisq(ht))
    IN  IF max_chisq = {}
        THEN [kind |-> "TypeError", rows |-> {}]
        ELSE LET m == CHOOSE x \in max_chisq : TRUE
             IN  IF MeetsThreshold(m, threshold)
                 THEN [kind |-> "Table",
                       rows |-> {CHOOSE i \in DOMAIN ht :
                                    /\ ht[i] = {m}
                                    /\ \A j \in DOMAIN ht : ht[j] = {m} => i <= j}]
                 ELSE [kind |-> "None", rows |-> {}]

\* The tail of search_for_break: the table filtered to the rows holding the
\* maximum chisq, or None.  With no defined chisq the aggregation gives None
\* and Python's `None >= float` raises TypeError.
search_for_break(ht, threshold) ==
    LET max_chisq == AggMax(DefinedChisq(ht))
    IN  IF max_chisq = {}
        THEN [kind |-> "TypeError", rows |-> {}]
        ELSE LET m == CHOOSE x \in max_chisq : TRUE
             IN  IF MeetsThreshold(m, threshold)
                 THEN [kind |-> "Table", rows |-> {i \in DOMAIN ht : ht[i] = {m}}]
                 ELSE [kind |-> "None", rows |-> {}]

NoResult == [kind |-> "", rows |-> {}]

sfbIdle ==
    /\ sfb_pc = "idle"
    /\ sfb_ht = <<>>
    /\ chisq_threshold = 0
    /\ sfb_result = NoResult

sfbInit ==
    /\ sfb_pc = "call"
    /\ \E n \in 0..MaxRows : sfb_ht \in [1..n -> OptChisq]
    /\ chisq_threshold \in Thresholds
    /\ sfb_result = NoResult

SearchForBreak ==
    /\ sfb_pc = "call"
    /\ sfb_result' = search_for_break(sfb_ht, chisq_threshold)
    /\ sfb_pc' = "done"
    /\ UNCHANGED <<sfb_ht, chisq_threshold>>
    /\ UNCHANGED sfbOthers

sfbNext == SearchForBreak

RowsAtMaximum ==
    {i \in DOMAIN sfb_ht :
        /\ sfb_ht[i] # {}
        /\ \A j \in DOMAIN sfb_ht : \A v \in sfb_ht[i] : \A w \in sfb_ht[j] : w <= v}

SetMin(S) == CHOOSE m \in S : \A x \in S : m <= x
SetMax(S) == CHOOSE m \in S : \A x \in S : x <= m

\* The window taken one position too long.
WindowSectionInclusive(pos, start, size) ==
    IF pos >= start /\ pos <= start + size THEN "window"
    ELSE IF pos < start THEN "pre"
    ELSE "post"

\* The section each row's position gets for a window starting at start:
\* window when start <= pos < start + size, pre when pos < start, else post.
WindowSection(pos, start, size) ==
    IF pos >= start /\ pos < start + size THEN "window"
    ELSE IF pos < start THEN "pre"
    ELSE "post"

\* `(max_chisq > best_chisq) and (max_chisq >= chisq_threshold)`
BetterWindow(max_chisq, best, threshold) ==
    max_chisq > best /\ max_chisq >= threshold

\* `if best_chisq != 0: return (best_chisq, breakpoints)`, else None.
TwoBreaksResult(best, bps) ==
    IF best # 0
    THEN [kind |-> "Tuple", best_chisq |-> best, breakpoints |-> bps]
    ELSE [kind |-> "None", best_chisq |-> 0, breakpoints |-> <<>>]

s2bIdle ==
    /\ s2b_pc = "idle"
    /\ s2b_positions = {}
    /\ s2b_threshold = 0
    /\ break_size = 0
    /\ window_chisq = <<>>
    /\ s2b_section = <<>>
    /\ start_pos = 0
    /\ end_pos = 0
    /\ best_chisq = 0
    /\ breakpoints = <<>>
    /\ s2b_result = [kind |-> "", best_chisq |-> 0, breakpoints |-> <<>>]

\* The transcript's rows (their positions), the window size, the threshold
\* and, for each window start, the largest chisq process_sections finds for
\* that placement (missing: no row flagged as a break).
s2bInit ==
    /\ s2b_pc = "start"
    /\ s2b_positions \in (SUBSET (1..MaxPos)) \ {{}}
    /\ s2b_threshold \in Thresholds
    /\ break_size \in 1..MaxWindow
    /\ window_chisq \in [1..MaxPos -> {{}} \cup {{v} : v \in WindowChisqVals}]
    /\ s2b_section = <<>>
    /\ start_pos = 0
    /\ end_pos = 0
    /\ best_chisq = 0
    /\ breakpoints = <<>>
    /\ s2b_result = [kind |-> "", best_chisq |-> 0, breakpoints |-> <<>>]

\* start_pos, end_pos: the first and the last row's position;
\* best_chisq = 0; breakpoints = ().
TwoBreaksStart ==
    /\ s2b_pc = "start"
    /\ start_pos' = SetMin(s2b_positions)
    /\ end_pos' = SetMax(s2b_positions)
    /\ best_chisq' = 0
    /\ breakpoints' = <<>>
    /\ s2b_pc' = "loop"
    /\ UNCHANGED <<s2b_positions, s2b_threshold, break_size, window_chisq,
                   s2b_section, s2b_result>>
    /\ UNCHANGED s2bOthers

\* One iteration of `while start_pos < end_pos`: the section annotation for
\* the window at start_pos, the search, start_pos += 1.  best_chisq is not
\* assigned in the loop body.
TwoBreaksIterate ==
    /\ s2b_pc = "loop"
    /\ start_pos < end_pos
    /\ s2b_section' =
           [pos \in s2b_positions |-> WindowSection(pos, start_pos, break_size)]
    /\ breakpoints' =
           IF \E max_chisq \in window_chisq[start_pos] :
                  BetterWindow(max_chisq, best_chisq, s2b_threshold)
           THEN <<start_pos, (start_pos + break_size) - 1>>
           ELSE breakpoints
    /\ start_pos' = start_pos + 1
    /\ UNCHANGED <<s2b_pc, s2b_positions, s2b_threshold, break_size, window_chisq,
                   end_pos, best_chisq, s2b_result>>
    /\ UNCHANGED s2bOthers

TwoBreaksReturn ==
    /\ s2b_pc = "loop"
    /\ ~(start_pos < end_pos)
    /\ s2b_result' = TwoBreaksResult(best_chisq, breakpoints)
    /\ s2b_pc' = "done"
    /\ UNCHANGED <<s2b_positions, s2b_threshold, break_size, window_chisq,
                   s2b_section, start_pos, end_pos, best_chisq, breakpoints>>
    /\ UNCHANGED s2bOthers

s2bNext == TwoBreaksStart \/ TwoBreaksIterate \/ TwoBreaksReturn

\* The window starts the loop visits.
VisitedStarts == {s \in 1..MaxPos : SetMin(s2b_positions) <= s /\ s < SetMax(s2b_positions)}

\* C5: when some window placement's chisq is at or above the threshold,
\* search_for_two_breaks returns the largest chisq over all placements with
\* the boundaries (start, start + size - 1) of a placement attaining it; it
\* returns None only when no placement clears the threshold.
C5_ReturnsBestWindow ==
    s2b_pc = "done" =>
        LET clearing == {s \in VisitedStarts :
                            \E v \in window_chisq[s] : v >= s2b_threshold}
            best == SetMax(UNION {window_chisq[s] : s \in clearing})
        IN  IF clearing = {}
            THEN s2b_result.kind = "None"
            ELSE /\ s2b_result.kind = "Tuple"
                 /\ s2b_result.best_chisq = best
                 /\ \E s \in clearing :
                        /\ window_chisq[s] = {best}
                        /\ s2b_result.breakpoints = <<s, s + break_size - 1>>

\* The loop ran to its end.
TwoBreaksDone == s2b_pc = "done"

\* One step of the sliding window: from the first position, by exactly 1,
\* stopping at the last position, each row in the one section its position
\* gives it.
WindowAdvances ==
    /\ s2b_pc = "start" =>
          /\ start_pos' \in s2b_positions
          /\ end_pos' \in s2b_positions
          /\ \A pos \in s2b_positions : start_pos' <= pos /\ pos <= end_pos'
    /\ (s2b_pc = "loop" /\ s2b_pc' = "loop") =>
          /\ start_pos < end_pos
          /\ start_pos' = start_pos + 1
          /\ end_pos' = end_pos
          /\ DOMAIN s2b_section' = s2b_positions
          /\ \A pos \in s2b_positions :
                /\ s2b_section'[pos] = "pre" <=> pos < start_pos
                /\ s2b_section'[pos] = "window" <=>
                      (start_pos <= pos /\ pos < start_pos + break_size)
                /\ s2b_section'[pos] = "post" <=> pos >= start_pos + break_size
    /\ (s2b_pc = "loop" /\ s2b_pc' = "done") => start_pos = end_pos

TranscriptIds == {"ENST1", "ENST2", "ENST3", "ENST4"}
RunTranscripts == {t \in TranscriptIds : \E i \in 1..MaxTranscripts : t = "ENST" \o ToString(i)}

\* --ttn-id
ttn_id == "ENST00000589042"

\* The lists `args.transcripts_to_run.split(",")` can give: one or more ids.
TranscriptLists ==
    {q \in UNION {[1..n -> RunTranscripts] : n \in 1..MaxTranscripts} :
        \A i, j \in DOMAIN q : i # j => q[i] # q[j]}

\* transcripts_to_run[x : x + size]
Slice(q, x, size) ==
    [i \in 1..(IF x + size <= Len(q) THEN size ELSE Len(q) - x) |-> q[x + i]]

\* [transcripts_to_run[x : x + group_size] for x in range(0, len, group_size)]
GroupsOfSize(q, size) ==
    [k \in 1..((Len(q) + size - 1) \div size) |-> Slice(q, (k - 1) * size, size)]

\* The list of groups main builds; group_size 0 stands for an absent
\* (or zero) --group-size, which Python's `if args.group_size` treats alike.
TranscriptGroups(args) ==
    IF args.run_ttn THEN <<(<<ttn_id>>)>>
    ELSE IF args.group_size # 0
         THEN GroupsOfSize(args.transcripts_to_run, args.group_size)
         ELSE [k \in 1..Len(args.transcripts_to_run) |-> <<args.transcripts_to_run[k]>>]

\* output_ht for the group at index c of enumerate().
OutputHt(args, c) ==
    IF args.run_ttn
    THEN "hts/" \o ToString(args.search_num) \o "/simul_break_dataproc_ttn.ht"
    ELSE "hts/" \o ToString(args.search_num) \o "/simul_break_dataproc_"
             \o ToString(c) \o ".ht"

SearchNums == {2}

OutputPaths ==
    {OutputHt([run_ttn |-> r, search_num |-> n], c) :
        r \in BOOLEAN, n \in SearchNums, c \in 0..(MaxTranscripts - 1)}

\* process_section_group (rmc/utils/simultaneous_breaks.py): searches the
\* group and writes its result table at output_ht_path.
process_section_group(files, output_ht_path) ==
    [files EXCEPT ![output_ht_path] = "written"]

OutputBlockedUnlessReuse(files, path, read_if_exists) ==
    files[path] # "absent" /\ ~read_if_exists

\* `if file_exists(output_ht): raise DataException(...)`; read_if_exists is
\* not consulted.
OutputBlocked(files, path, read_if_exists) == files[path] # "absent"

RbdArgs ==
    [run_ttn : BOOLEAN, transcripts_to_run : TranscriptLists,
     group_size : 0..MaxGroupSize, read_if_exists : BOOLEAN,
     search_num : SearchNums]

rbdIdle ==
    /\ rbd_pc = "idle"
    /\ rbd_args = [run_ttn |-> FALSE, transcripts_to_run |-> <<>>, group_size |-> 0,
                   read_if_exists |-> FALSE, search_num |-> 0]
    /\ transcript_groups = <<>>
    /\ counter = 0
    /\ rbd_existing = {}
    /\ rbd_files = <<>>
    /\ rbd_processed = {}
    /\ rbd_exc = ""
    /\ rbd_log_copied = FALSE

\* A run starts with any of the output tables left by earlier runs.
rbdInit ==
    /\ rbd_pc = "start"
    /\ rbd_args \in RbdArgs
    /\ transcript_groups = <<>>
    /\ counter = 0
    /\ rbd_existing \in SUBSET OutputPaths
    /\ rbd_files = [p \in OutputPaths |-> IF p \in rbd_existing THEN "previous" ELSE "absent"]
    /\ rbd_processed = {}
    /\ rbd_exc = ""
    /\ rbd_log_copied = FALSE

\* Lines 38-50: build transcript_groups.
RbdSplit ==
    /\ rbd_pc = "start"
    /\ transcript_groups' = TranscriptGroups(rbd_args)
    /\ counter' = 0
    /\ rbd_pc' = "loop"
    /\ UNCHANGED <<rbd_args, rbd_existing, rbd_files, rbd_processed, rbd_exc, rbd_log_copied>>
    /\ UNCHANGED rbdOthers

\* Lines 58-61: the output exists, DataException.
RbdOutputExists ==
    /\ rbd_pc = "loop"
    /\ counter < Len(transcript_groups)
    /\ OutputBlocked(rbd_files, OutputHt(rbd_args, counter), rbd_args.read_if_exists)
    /\ rbd_exc' = "DataException"
    /\ rbd_pc' = "finally"
    /\ UNCHANGED <<rbd_args, transcript_groups, counter, rbd_existing, rbd_files,
                   rbd_processed, rbd_log_copied>>
    /\ UNCHANGED rbdOthers

\* Lines 63-73: process_section_group searches the group and writes its
\* table at output_ht_path.
RbdProcessGroup ==
    /\ rbd_pc = "loop"
    /\ counter < Len(transcript_groups)
    /\ ~OutputBlocked(rbd_files, OutputHt(rbd_args, counter), rbd_args.read_if_exists)
    /\ rbd_files' = process_section_group(rbd_files, OutputHt(rbd_args, counter))
    /\ rbd_processed' = rbd_processed \cup {counter}
    /\ counter' = counter + 1
    /\ UNCHANGED <<rbd_pc, rbd_args, transcript_groups, rbd_existing, rbd_exc, rbd_log_copied>>
    /\ UNCHANGED rbdOthers

\* The for loop is exhausted.
RbdLoopEnd ==
    /\ rbd_pc = "loop"
    /\ counter = Len(transcript_groups)
    /\ rbd_pc' = "finally"
    /\ UNCHANGED <<rbd_args, transcript_groups, counter, rbd_existing, rbd_files,
                   rbd_processed, rbd_exc, rbd_log_copied>>
    /\ UNCHANGED rbdOthers

\* Lines 75-77: finally, hl.copy_log(LOGGING_PATH).
RbdFinally ==
    /\ rbd_pc = "finally"
    /\ rbd_log_copied' = TRUE
    /\ rbd_pc' = "exit"
    /\ UNCHANGED <<rbd_args, transcript_groups, counter, rbd_existing, rbd_files,
                   rbd_processed, rbd_exc>>
    /\ UNCHANGED rbdOthers

rbdNext == RbdSplit \/ RbdOutputExists \/ RbdProcessGroup \/ RbdLoopEnd \/ RbdFinally

\* The index of the first group of this run whose output table existed
\* when the run started (a set: empty when there is none).
FirstExistingGroup ==
    {c \in 0..(Len(transcript_groups) - 1) :
        /\ OutputHt(rbd_args, c) \in rbd_existing
        /\ \A d \in 0..(c - 1) : OutputHt(rbd_args, d) \notin rbd_existing}

vt_ttn == ttn_id

UnderOnly(under, over) == under

\* The union of the under-threshold and over-threshold sets of the round.
ScheduledTranscripts(under, over) == under \cup over

\* check_for_successful_transcripts (rmc/utils/simultaneous_breaks.py):
\* the transcripts of the list that have no success marker.
check_for_successful_transcripts(transcripts, markers) == transcripts \ markers

vtIdle ==
    /\ vt_pc = "idle"
    /\ under_threshold = {}
    /\ over_threshold = {}
    /\ success_markers = {}
    /\ vt_transcripts = {}
    /\ missing_transcripts = {}
    /\ vt_exc = ""
    /\ vt_ttn_warned = FALSE
    /\ vt_log_copied = FALSE

\* The scheduled sets do not hold the TTN id, which is run separately.
vtInit ==
    /\ vt_pc = "start"
    /\ under_threshold \in SUBSET RunTranscripts
    /\ over_threshold \in SUBSET RunTranscripts
    /\ success_markers \in SUBSET (RunTranscripts \cup {vt_ttn})
    /\ vt_transcripts = {}
    /\ missing_transcripts = {}
    /\ vt_exc = ""
    /\ vt_ttn_warned = FALSE
    /\ vt_log_copied = FALSE

\* Lines 34-58: read both sets, list the transcripts without a marker.
VtCollect ==
    /\ vt_pc = "start"
    /\ vt_transcripts' = ScheduledTranscripts(under_threshold, over_threshold)
    /\ missing_transcripts' =
           check_for_successful_transcripts(
               ScheduledTranscripts(under_threshold, over_threshold), success_markers)
    /\ vt_pc' = "check"
    /\ UNCHANGED <<under_threshold, over_threshold, success_markers, vt_exc,
                   vt_ttn_warned, vt_log_copied>>
    /\ UNCHANGED vtOthers

\* Lines 59-61: `if len(missing_transcripts) > 0: raise DataException`.
\* main has no try/finally: the exception leaves the program.
VtRaiseMissing ==
    /\ vt_pc = "check"
    /\ Cardinality(missing_transcripts) > 0
    /\ vt_exc' = "DataException"
    /\ vt_pc' = "exit"
    /\ UNCHANGED <<under_threshold, over_threshold, success_markers, vt_transcripts,
                   missing_transcripts, vt_ttn_warned, vt_log_copied>>
    /\ UNCHANGED vtOthers

\* Lines 66-76: the TTN check warns only; main returns.
VtCheckTtn ==
    /\ vt_pc = "check"
    /\ ~(Cardinality(missing_transcripts) > 0)
    /\ vt_ttn_warned' =
           (Cardinality(check_for_successful_transcripts({vt_ttn}, success_markers)) > 0)
    /\ vt_pc' = "exit"
    /\ UNCHANGED <<under_threshold, over_threshold, success_markers, vt_transcripts,
                   missing_transcripts, vt_exc, vt_log_copied>>
    /\ UNCHANGED vtOthers

vtNext == VtCollect \/ VtRaiseMissing \/ VtCheckTtn

\* C7: verify_transcripts fails fatally exactly when some transcript of the
\* union of the under-threshold and over-threshold sets has no success
\* marker; when only TTN's marker is missing it warns and completes normally.
C7_FatalIffScheduledMissing ==
    vt_pc = "exit" =>
        LET unmarked == \E t \in under_threshold \cup over_threshold :
                            t \notin success_markers
        IN  /\ (vt_exc = "DataException") <=> unmarked
            /\ (vt_exc = "") <=> ~unmarked
            /\ (~unmarked /\ vt_ttn \notin success_markers) =>
                   (vt_exc = "" /\ vt_ttn_warned)
            /\ vt_ttn_warned => vt_ttn \notin success_markers

\* Fatal because of a transcript that is in the over-threshold set only.
C7_Witness ==
    /\ vt_pc = "exit"
    /\ vt_exc = "DataException"
    /\ under_threshold \subseteq success_markers
    /\ ~(over_threshold \subseteq success_markers)

\* C8: every program runs the copy-run-log-to-logging-bucket action before
\* it exits, whether it completed or raised.  Here for verify_transcripts.
C8_LogCopiedBeforeExit ==
    vt_pc = "exit" => vt_log_copied

\* ------------------------------------------------------------------------
\* merge_hts (rmc/pipeline/two_breaks/merge_hts.py)
\* ------------------------------------------------------------------------
ANNOTATIONS == {"max_chisq", "section", "section_1", "breakpoints"}

\* One line of `gsutil ls`: whether the path ends with "ht", whether the
\* table has rows (count() > 0), and the table's row fields.
ListedPaths ==
    {[is_ht |-> FALSE, nonempty |-> FALSE, row_fields |-> {}],
     [is_ht |-> TRUE, nonempty |-> FALSE, row_fields |-> ANNOTATIONS]}
    \cup [is_ht : {TRUE}, nonempty : {TRUE}, row_fields : SUBSET ANNOTATIONS]

\* temp.key_by("section") needs the field to exist.
KeyByFails(t) == "section" \notin t.row_fields

\* `len(ANNOTATIONS.intersection(row_fields)) < 3`
TooFewAnnotations(t) == Cardinality(ANNOTATIONS \cap t.row_fields) < 3

\* temp.select(*ANNOTATIONS) needs every one of the four fields to exist.
SelectFails(t) == ~(ANNOTATIONS \subseteq t.row_fields)

MhFileNames == {"merged.ht", "sections.he", "no_breaks.ht"}

CanWriteAlways(files, path, overwrite) == TRUE

\* Table.checkpoint / write / write_expression with an overwrite flag: the
\* storage layer refuses to replace an existing path unless overwrite.
CanWrite(files, path, overwrite) == files[path] = "absent" \/ overwrite

mhIdle ==
    /\ mh_pc = "idle"
    /\ mh_args = [overwrite |-> FALSE, create_no_breaks_ht |-> FALSE]
    /\ temp_ht_paths = <<>>
    /\ mh_index = 0
    /\ ht_count = 0
    /\ intermediate_hts = <<>>
    /\ mh_files = <<>>
    /\ mh_exc = ""
    /\ mh_log_copied = FALSE

mhInit ==
    /\ mh_pc = "loop"
    /\ mh_args \in [overwrite : BOOLEAN, create_no_breaks_ht : BOOLEAN]
    /\ \E n \in 0..MaxTables : temp_ht_paths \in [1..n -> ListedPaths]
    /\ mh_index = 1
    /\ ht_count = 0
    /\ intermediate_hts = <<>>
    /\ mh_files \in [MhFileNames -> {"absent", "previous"}]
    /\ mh_exc = ""
    /\ mh_log_copied = FALSE

MhCurrent == temp_ht_paths[mh_index]

MhRaise(e) ==
    /\ mh_exc' = e
    /\ mh_pc' = "finally"

\* Line 63: a path that does not end with "ht" is passed over.
MhSkipPath ==
    /\ mh_pc = "loop"
    /\ mh_index <= Len(temp_ht_paths)
    /\ ~MhCurrent.is_ht
    /\ mh_index' = mh_index + 1
    /\ UNCHANGED <<mh_pc, mh_args, temp_ht_paths, ht_count, intermediate_hts,
                   mh_files, mh_exc, mh_log_copied>>
    /\ UNCHANGED mhOthers

\* Lines 64-67, 82-83: a table with 0 rows is counted and not appended.
MhEmptyTable ==
    /\ mh_pc = "loop"
    /\ mh_index <= Len(temp_ht_paths)
    /\ MhCurrent.is_ht
    /\ ~MhCurrent.nonempty
    /\ ht_count' = ht_count + 1
    /\ mh_index' = mh_index + 1
    /\ UNCHANGED <<mh_pc, mh_args, temp_ht_paths, intermediate_hts,
                   mh_files, mh_exc, mh_log_copied>>
    /\ UNCHANGED mhOthers

\* Line 74: key_by("section") on a table without that field.
MhKeyByError ==
    /\ mh_pc = "loop"
    /\ mh_index <= Len(temp_ht_paths)
    /\ MhCurrent.is_ht
    /\ MhCurrent.nonempty
    /\ KeyByFails(MhCurrent)
    /\ ht_count' = ht_count + 1
    /\ MhRaise("LookupError")
    /\ UNCHANGED <<mh_args, temp_ht_paths, mh_index, intermediate_hts,
                   mh_files, mh_log_copied>>
    /\ UNCHANGED mhOthers

\* Lines 75-79: fewer than 3 of the 4 annotations, DataException.
MhMissingFields ==
    /\ mh_pc = "loop"
    /\ mh_index <= Len(temp_ht_paths)
    /\ MhCurrent.is_ht
    /\ MhCurrent.nonempty
    /\ ~KeyByFails(MhCurrent)
    /\ TooFewAnnotations(MhCurrent)
    /\ ht_count' = ht_count + 1
    /\ MhRaise("DataException")
    /\ UNCHANGED <<mh_args, temp_ht_paths, mh_index, intermediate_hts,
                   mh_files, mh_log_copied>>
    /\ UNCHANGED mhOthers

\* Line 80: select(*ANNOTATIONS) on a table that lacks one of them.
MhSelectError ==
    /\ mh_pc = "loop"
    /\ mh_index <= Len(temp_ht_paths)
    /\ MhCurrent.is_ht
    /\ MhCurrent.nonempty
    /\ ~KeyByFails(MhCurrent)
    /\ ~TooFewAnnotations(MhCurrent)
    /\ SelectFails(MhCurrent)
    /\ ht_count' = ht_count + 1
    /\ MhRaise("LookupError")
    /\ UNCHANGED <<mh_args, temp_ht_paths, mh_index, intermediate_hts,
                   mh_files, mh_log_copied>>
    /\ UNCHANGED mhOthers

\* Lines 80-81: the table is appended to intermediate_hts.
MhAppend ==
    /\ mh_pc = "loop"
    /\ mh_index <= Len(temp_ht_paths)
    /\ MhCurrent.is_ht
    /\ MhCurrent.nonempty
    /\ ~KeyByFails(MhCurrent)
    /\ ~TooFewAnnotations(MhCurrent)
    /\ ~SelectFails(MhCurrent)
    /\ ht_count' = ht_count + 1
    /\ intermediate_hts' = Append(intermediate_hts, mh_index)
    /\ mh_index' = mh_index + 1
    /\ UNCHANGED <<mh_pc, mh_args, temp_ht_paths, mh_files, mh_exc, mh_log_copied>>
    /\ UNCHANGED mhOthers

\* Lines 86-89: nothing was appended, DataException.
MhNoTables ==
    /\ mh_pc = "loop"
    /\ mh_index > Len(temp_ht_paths)
    /\ Len(intermediate_hts) = 0
    /\ MhRaise("DataException")
    /\ UNCHANGED <<mh_args, temp_ht_paths, mh_index, ht_count, intermediate_hts,
                   mh_files, mh_log_copied>>
    /\ UNCHANGED mhOthers

\* Lines 90-94: the union is checkpointed at merged.ht.
MhMerge ==
    /\ mh_pc = "loop"
    /\ mh_index > Len(temp_ht_paths)
    /\ Len(intermediate_hts) # 0
    /\ IF CanWrite(mh_files, "merged.ht", mh_args.overwrite)
       THEN /\ mh_files' = [mh_files EXCEPT !["merged.ht"] = "written"]
            /\ mh_pc' = "sections"
            /\ UNCHANGED mh_exc
       ELSE /\ MhRaise("FatalError")
            /\ UNCHANGED mh_files
    /\ UNCHANGED <<mh_args, temp_ht_paths, mh_index, ht_count, intermediate_hts,
                   mh_log_copied>>
    /\ UNCHANGED mhOthers

\* Lines 97-124: the set of sections is written, then (--create-no-breaks-ht)
\* the no-breaks table.
MhWriteSections ==
    /\ mh_pc = "sections"
    /\ IF ~CanWrite(mh_files, "sections.he", mh_args.overwrite)
       THEN /\ MhRaise("FatalError")
            /\ UNCHANGED mh_files
       ELSE IF ~mh_args.create_no_breaks_ht
       THEN /\ mh_files' = [mh_files EXCEPT !["sections.he"] = "written"]
            /\ mh_pc' = "finally"
            /\ UNCHANGED mh_exc
       ELSE IF ~CanWrite(mh_files, "no_breaks.ht", mh_args.overwrite)
       THEN /\ mh_files' = [mh_files EXCEPT !["sections.he"] = "written"]
            /\ MhRaise("FatalError")
       ELSE /\ mh_files' = [mh_files EXCEPT !["sections.he"] = "written",
                                            !["no_breaks.ht"] = "written"]
            /\ mh_pc' = "finally"
            /\ UNCHANGED mh_exc
    /\ UNCHANGED <<mh_args, temp_ht_paths, mh_index, ht_count, intermediate_hts,
                   mh_log_copied>>
    /\ UNCHANGED mhOthers

\* Lines 126-128: finally, hl.copy_log(LOGGING_PATH).
MhFinally ==
    /\ mh_pc = "finally"
    /\ mh_log_copied' = TRUE
    /\ mh_pc' = "exit"
    /\ UNCHANGED <<mh_args, temp_ht_paths, mh_index, ht_count, intermediate_hts,
                   mh_files, mh_exc>>
    /\ UNCHANGED mhOthers

mhNext ==
    \/ MhSkipPath \/ MhEmptyTable \/ MhKeyByError \/ MhMissingFields
    \/ MhSelectError \/ MhAppend \/ MhNoTables \/ MhMerge \/ MhWriteSections
    \/ MhFinally

\* The non-empty tables of the listing that the loop has reached.
MhVisited ==
    {i \in DOMAIN temp_ht_paths :
        /\ temp_ht_paths[i].is_ht
        /\ temp_ht_paths[i].nonempty
        /\ i <= mh_index}

MhAppended == {intermediate_hts[k] : k \in DOMAIN intermediate_hts}

\* C10: merge_hts puts a non-empty intermediate table in the merged union
\* exactly when at least 3 of the 4 fields max_chisq, section, section_1,
\* breakpoints are among its row fields; a non-empty table with fewer than 3
\* makes the run fail before a merged table is written.
C10_MergedIffThreeOfFour ==
    mh_pc = "exit" =>
        \A i \in MhVisited :
            /\ i \in MhAppended
                <=> Cardinality(ANNOTATIONS \cap temp_ht_paths[i].row_fields) >= 3
            /\ Cardinality(ANNOTATIONS \cap temp_ht_paths[i].row_fields) < 3
                => (mh_exc # "" /\ mh_files["merged.ht"] # "written")

\* ------------------------------------------------------------------------
\* regional_constraint: --search-for-first-break and
\* --search-for-additional-breaks (rmc/pipeline/regional_constraint.py)
\* ------------------------------------------------------------------------
\* A table is the set of transcripts whose rows it holds: every filter of
\* these phases keeps or drops all the rows of a transcript together.
BsTranscripts == {"ENST01", "ENST02"}

\* Largest chisq of a transcript or of a section (x10).
BsChisqVals == {0, 78, 108}

SectionNames == {"pre", "post"}

\* The one path every round is checkpointed at.
SingleBreakPath(n) == "break_2.ht"

BreakPath(n) == "break_" \o ToString(n) \o ".ht"

\* Written with overwrite=args.overwrite.
BsOutputTables == {"one_break", "not_one_break", "multiple_breaks"}

\* Checkpointed under temp_path with overwrite=True.
BsTempTables == {"first_break.ht"} \cup {BreakPath(n) : n \in 2..MaxBreakNum}

BsPaths == BsOutputTables \cup BsTempTables

\* What a write leaves at a path.
WriteTable(files, path) ==
    [files EXCEPT ![path] = IF @ = "absent" THEN "written" ELSE "replaced"]

\* process_transcripts: the transcripts that get a row with is_break, given
\* the largest chisq of each transcript.
process_transcripts(chisq, threshold) ==
    {t \in DOMAIN chisq : MeetsThreshold(chisq[t], threshold)}

\* process_additional_breaks: each transcript of ht is split into the
\* sections pre and post its break; the transcripts that get a row with
\* is_break, given the largest chisq of each section.
process_additional_breaks(ht, chisq, threshold) ==
    {t \in ht : \E s \in SectionNames : MeetsThreshold(chisq[<<t, s>>], threshold)}

\* ht.annotate_globals(name=...): the break annotations of the globals.
annotate_globals(globals, name) == globals \cup {name}

\* Every row kept, whatever the other table holds.
KeepAllRows(ht, other) == ht

\* ht.anti_join(other): the rows of ht whose key is not in other.
anti_join(ht, other) == ht \ other

LoopNeverExits(group_ht) == FALSE

\* break_ht[context_ht.key].is_break for the break row of transcript t:
\* missing when break_ht holds no row of t.
JoinedIsBreak(ht, is_break, t) == IF t \in ht THEN {t \in is_break} ELSE {}

\* The list as it was, nothing added.
NotAppended(break_list, is_break) == break_list

\* context_ht.break_list.append(context_ht.is_break)
append(break_list, is_break) == Append(break_list, is_break)

\* `if group_ht.count() == 0: break`
LoopExits(group_ht) == Cardinality(group_ht) = 0

BsArgs ==
    [search_for_first_break : BOOLEAN, search_for_additional_breaks : BOOLEAN,
     overwrite : BOOLEAN, chisq_threshold : Thresholds]

\* Storage after an earlier invocation that completed nothing, the first
\* phase, or both phases, with s the transcripts that had a break then.
PriorFiles(prior, p) ==
    CASE prior = "none" -> "absent"
      [] prior = "first" ->
            IF p \in {"first_break.ht", "one_break", "not_one_break"}
            THEN "previous" ELSE "absent"
      [] OTHER ->
            IF p \in BsOutputTables \cup {"first_break.ht", BreakPath(2)}
            THEN "previous" ELSE "absent"

PriorTables(prior, s, p) ==
    IF PriorFiles(prior, p) = "absent" THEN {}
    ELSE IF p = "first_break.ht" THEN BsTranscripts
    ELSE IF p = "not_one_break" THEN BsTranscripts \ s
    ELSE s

\* The break annotations in the globals of the tables an earlier invocation left.
PriorGlobals(prior, p) ==
    IF PriorFiles(prior, p) # "absent" /\ p \notin {"first_break.ht", "not_one_break"}
    THEN {"break_1_transcripts"}
    ELSE {}

bsIdle ==
    /\ bs_pc = "idle"
    /\ bs_args = [search_for_first_break |-> FALSE,
                  search_for_additional_breaks |-> FALSE,
                  overwrite |-> FALSE, chisq_threshold |-> 108]
    /\ bs_files = <<>>
    /\ bs_tables = <<>>
    /\ bs_table_globals = <<>>
    /\ bs_context = {}
    /\ bs_is_break = {}
    /\ break_ht = {}
    /\ section_chisq = <<>>
    /\ break_num = 0
    /\ bs_globals = {}
    /\ bs_break_list = <<>>
    /\ bs_exc = ""
    /\ bs_log_copied = FALSE

bsInit ==
    /\ bs_pc = "first"
    /\ bs_args \in BsArgs
    /\ \E prior \in {"none", "first", "additional"} :
       \E s \in SUBSET BsTranscripts :
          /\ bs_files = [p \in BsPaths |-> PriorFiles(prior, p)]
          /\ bs_tables = [p \in BsPaths |-> PriorTables(prior, s, p)]
          /\ bs_table_globals = [p \in BsPaths |-> PriorGlobals(prior, p)]
    /\ bs_context = {}
    /\ bs_is_break = {}
    /\ break_ht = {}
    /\ section_chisq = <<>>
    /\ break_num = 0
    /\ bs_globals = {}
    /\ bs_break_list = <<>>
    /\ bs_exc = ""
    /\ bs_log_copied = FALSE

BsRaise(e) ==
    /\ bs_exc' = e
    /\ bs_pc' = "finally"

\* Line 265 with the flag absent.
BsSkipFirstBreak ==
    /\ bs_pc = "first"
    /\ ~bs_args.search_for_first_break
    /\ bs_pc' = "additional"
    /\ UNCHANGED <<bs_args, bs_files, bs_tables, bs_context, bs_is_break, break_ht,
                   section_chisq, break_num, bs_globals, bs_exc, bs_log_copied>>
    /\ UNCHANGED bs_break_list
    /\ UNCHANGED bs_table_globals
    /\ UNCHANGED bsOthers

\* Lines 265-273: process_transcripts, then the checkpoint first_break.ht
\* with overwrite=True.
BsFirstBreak ==
    /\ bs_pc = "first"
    /\ bs_args.search_for_first_break
    /\ \E chisq \in [BsTranscripts -> BsChisqVals] :
          bs_is_break' = process_transcripts(chisq, bs_args.chisq_threshold)
    /\ bs_context' = BsTranscripts
    /\ bs_files' = WriteTable(bs_files, "first_break.ht")
    /\ bs_tables' = [bs_tables EXCEPT !["first_break.ht"] = BsTranscripts]
    /\ bs_table_globals' = [bs_table_globals EXCEPT !["first_break.ht"] = {}]
    /\ bs_pc' = "write_one_break"
    /\ UNCHANGED <<bs_args, break_ht, section_chisq, break_num, bs_globals,
                   bs_exc, bs_log_copied>>
    /\ UNCHANGED bs_break_list
    /\ UNCHANGED bsOthers

\* Lines 278-288: one_break_ht.write(one_break.path, overwrite=args.overwrite).
BsWriteOneBreak ==
    /\ bs_pc = "write_one_break"
    /\ IF CanWrite(bs_files, "one_break", bs_args.overwrite)
       THEN /\ bs_files' = WriteTable(bs_files, "one_break")
            /\ bs_tables' = [bs_tables EXCEPT !["one_break"] = bs_is_break]
            /\ bs_table_globals' =
                  [bs_table_globals EXCEPT
                      !["one_break"] = annotate_globals({}, "break_1_transcripts")]
            /\ bs_globals' = {"break_1_transcripts"}
            /\ bs_pc' = "write_not_one_break"
            /\ UNCHANGED bs_exc
       ELSE /\ BsRaise("FatalError")
            /\ UNCHANGED <<bs_files, bs_tables, bs_table_globals, bs_globals>>
    /\ UNCHANGED <<bs_args, bs_context, bs_is_break, break_ht, section_chisq,
                   break_num, bs_log_copied>>
    /\ UNCHANGED bs_break_list
    /\ UNCHANGED bsOthers

\* Lines 290-295: context_ht.anti_join(one_break_ht), with the globals of
\* context_ht; not_one_break_ht.write(not_one_break.path,
\* overwrite=args.overwrite).
BsWriteNotOneBreak ==
    /\ bs_pc = "write_not_one_break"
    /\ IF CanWrite(bs_files, "not_one_break", bs_args.overwrite)
       THEN /\ bs_files' = WriteTable(bs_files, "not_one_break")
            /\ bs_tables' = [bs_tables EXCEPT
                                !["not_one_break"] = anti_join(bs_context, bs_is_break)]
            /\ bs_table_globals' = [bs_table_globals EXCEPT !["not_one_break"] = {}]
            /\ bs_pc' = "additional"
            /\ UNCHANGED bs_exc
       ELSE /\ BsRaise("FatalError")
            /\ UNCHANGED <<bs_files, bs_tables, bs_table_globals>>
    /\ UNCHANGED <<bs_args, bs_context, bs_is_break, break_ht, section_chisq,
                   break_num, bs_globals, bs_log_copied>>
    /\ UNCHANGED bs_break_list
    /\ UNCHANGED bsOthers

\* Line 297 with the flag absent.
BsSkipAdditional ==
    /\ bs_pc = "additional"
    /\ ~bs_args.search_for_additional_breaks
    /\ bs_pc' = "finally"
    /\ UNCHANGED <<bs_args, bs_files, bs_tables, bs_context, bs_is_break, break_ht,
                   section_chisq, break_num, bs_globals, bs_exc, bs_log_copied>>
    /\ UNCHANGED bs_break_list
    /\ UNCHANGED bs_table_globals
    /\ UNCHANGED bsOthers

\* Lines 297-313: one_break.ht() is read, break_list = [is_break] (the break
\* row of each transcript), break_num = 2.
BsReadOneBreak ==
    /\ bs_pc = "additional"
    /\ bs_args.search_for_additional_breaks
    /\ IF bs_files["one_break"] = "absent"
       THEN /\ BsRaise("FatalError")
            /\ UNCHANGED <<bs_context, break_ht, break_num, bs_globals,
                           bs_break_list>>
       ELSE /\ bs_context' = bs_tables["one_break"]
            /\ bs_break_list' = [t \in bs_tables["one_break"] |-> <<{TRUE}>>]
            /\ break_ht' = bs_tables["one_break"]
            /\ break_num' = 2
            /\ bs_globals' = {"break_1_transcripts"}
            /\ bs_pc' = "round"
            /\ UNCHANGED bs_exc
    /\ UNCHANGED <<bs_args, bs_files, bs_tables, bs_is_break, section_chisq,
                   bs_log_copied>>
    /\ UNCHANGED bs_table_globals
    /\ UNCHANGED bsOthers

\* Lines 320-335: process_additional_breaks, the checkpoint
\* break_{break_num}.ht with overwrite=True, group_ht.
BsRound ==
    /\ bs_pc = "round"
    /\ \E chisq \in [break_ht \X SectionNames -> BsChisqVals] :
          /\ section_chisq' = chisq
          /\ bs_is_break' =
                process_additional_breaks(break_ht, chisq, bs_args.chisq_threshold)
    /\ bs_files' = WriteTable(bs_files, BreakPath(break_num))
    /\ bs_tables' = [bs_tables EXCEPT ![BreakPath(break_num)] = break_ht]
    /\ bs_table_globals' =
          [bs_table_globals EXCEPT ![BreakPath(break_num)] = {"break_1_transcripts"}]
    /\ bs_pc' = "check"
    /\ UNCHANGED <<bs_args, bs_context, break_ht, break_num, bs_globals,
                   bs_exc, bs_log_copied>>
    /\ UNCHANGED bs_break_list
    /\ UNCHANGED bsOthers

\* Lines 338-339: no transcript has an additional break, the loop ends.
BsLoopBreak ==
    /\ bs_pc = "check"
    /\ LoopExits(bs_is_break)
    /\ bs_pc' = "write_multiple_breaks"
    /\ UNCHANGED <<bs_args, bs_files, bs_tables, bs_context, bs_is_break, break_ht,
                   section_chisq, break_num, bs_globals, bs_exc, bs_log_copied>>
    /\ UNCHANGED bs_break_list
    /\ UNCHANGED bs_table_globals
    /\ UNCHANGED bsOthers

\* Lines 342-360: break_{break_num}_transcripts is annotated, the round's
\* is_break is joined onto context_ht and appended to its break_list, break_ht is
\* filtered to the transcripts found, break_num += 1.
BsNextRound ==
    /\ bs_pc = "check"
    /\ ~LoopExits(bs_is_break)
    /\ break_num < MaxBreakNum
    /\ bs_globals' = bs_globals \cup {"break_" \o ToString(break_num) \o "_transcripts"}
    /\ bs_break_list' =
          [t \in bs_context |->
              append(bs_break_list[t], JoinedIsBreak(break_ht, bs_is_break, t))]
    /\ break_ht' = break_ht \cap bs_is_break
    /\ break_num' = break_num + 1
    /\ bs_pc' = "round"
    /\ UNCHANGED <<bs_args, bs_files, bs_tables, bs_context, bs_is_break,
                   section_chisq, bs_exc, bs_log_copied>>
    /\ UNCHANGED bs_table_globals
    /\ UNCHANGED bsOthers

\* Line 362: context_ht.write(multiple_breaks.path, overwrite=args.overwrite).
BsWriteMultipleBreaks ==
    /\ bs_pc = "write_multiple_breaks"
    /\ IF CanWrite(bs_files, "multiple_breaks", bs_args.overwrite)
       THEN /\ bs_files' = WriteTable(bs_files, "multiple_breaks")
            /\ bs_tables' = [bs_tables EXCEPT !["multiple_breaks"] = bs_context]
            /\ bs_table_globals' =
                  [bs_table_globals EXCEPT !["multiple_breaks"] = bs_globals]
            /\ bs_pc' = "finally"
            /\ UNCHANGED bs_exc
       ELSE /\ BsRaise("FatalError")
            /\ UNCHANGED <<bs_files, bs_tables, bs_table_globals>>
    /\ UNCHANGED <<bs_args, bs_context, bs_is_break, break_ht, section_chisq,
                   break_num, bs_globals, bs_log_copied>>
    /\ UNCHANGED bs_break_list
    /\ UNCHANGED bsOthers

\* Lines 735-737: finally, hl.copy_log(LOGGING_PATH).
BsFinally ==
    /\ bs_pc = "finally"
    /\ bs_log_copied' = TRUE
    /\ bs_pc' = "exit"
    /\ UNCHANGED <<bs_args, bs_files, bs_tables, bs_context, bs_is_break, break_ht,
                   section_chisq, break_num, bs_globals, bs_exc>>
    /\ UNCHANGED bs_break_list
    /\ UNCHANGED bs_table_globals
    /\ UNCHANGED bsOthers

bsNext ==
    \/ BsSkipFirstBreak \/ BsFirstBreak \/ BsWriteOneBreak \/ BsWriteNotOneBreak
    \/ BsSkipAdditional \/ BsReadOneBreak \/ BsRound \/ BsLoopBreak
    \/ BsNextRound \/ BsWriteMultipleBreaks \/ BsFinally

\* The path the next step writes, if it writes one.
BsWriting ==
    CASE bs_pc = "first" /\ bs_args.search_for_first_break -> {"first_break.ht"}
      [] bs_pc = "write_one_break" -> {"one_break"}
      [] bs_pc = "write_not_one_break" -> {"not_one_break"}
      [] bs_pc = "round" -> {BreakPath(break_num)}
      [] bs_pc = "write_multiple_breaks" -> {"multiple_breaks"}
      [] OTHER -> {}

\* A write onto an existing path without --overwrite fails and leaves the
\* table as it was.
RefusesExisting(paths) ==
    \A p \in BsWriting \cap paths :
        (bs_files[p] # "absent" /\ ~bs_args.overwrite)
            => /\ bs_exc' = "FatalError"
               /\ bs_files'[p] = bs_files[p]
               /\ bs_tables'[p] = bs_tables[p]

NoSectionClears ==
    \A s \in DOMAIN section_chisq : section_chisq[s] < bs_args.chisq_threshold

\* After a round 2 in which nothing cleared the threshold the loop ends:
\* no break_2_transcripts annotation, break_num stays 2, and the next
\* statement is the write of the multiple-breaks table.
OneRoundThenWrite ==
    /\ (bs_pc = "check" /\ break_num = 2 /\ NoSectionClears)
            => /\ bs_pc' = "write_multiple_breaks"
               /\ break_num' = 2
               /\ "break_2_transcripts" \notin bs_globals'
    /\ (bs_pc = "write_multiple_breaks" /\ break_num = 2)
            => /\ break_num' = 2
               /\ "break_2_transcripts" \notin bs_globals'

RoundPath == "break_" \o ToString(break_num) \o ".ht"

MultipleBreaksWritten ==
    /\ bs_pc = "exit"
    /\ bs_exc = ""
    /\ bs_args.search_for_additional_breaks
    /\ bs_files["multiple_breaks"] \in {"written", "replaced"}

FirstBreakWritten ==
    /\ bs_args.search_for_first_break
    /\ bs_pc = "additional"

\* The searched table split in two: the transcripts with a row flagged
\* is_break in one_break, all the others in not_one_break.
FirstBreakSplit ==
    /\ bs_tables["one_break"] \cup bs_tables["not_one_break"]
          = bs_tables["first_break.ht"]
    /\ bs_tables["one_break"] \cap bs_tables["not_one_break"] = {}
    /\ bs_tables["one_break"] = bs_is_break
    /\ \A p \in {"one_break", "not_one_break"} :
          bs_files[p] \in {"written", "replaced"}

FinTranscripts == {"ENST01", "ENST02", "ENST03"}

\* What the earlier stages left: whether transcript.ht and the LoF constraint
\* table exist, the outlier transcripts, the transcripts with a first break
\* (break_1) and with a break in round 2, and those with simultaneous breaks.
FinEnvs ==
    {e \in [transcript_ht_exists : BOOLEAN, constraint_ht_exists : BOOLEAN,
            outliers : SUBSET FinTranscripts, break_1 : SUBSET FinTranscripts,
            break_2 : SUBSET FinTranscripts, simul : SUBSET FinTranscripts] :
        /\ e.break_2 \subseteq e.break_1
        /\ e.simul \cap e.break_1 = {}}

\* get_outlier_transcripts(): the transcripts flagged in the LoF constraint
\* table.
get_outlier_transcripts(env) == env.outliers

\* The numbers in the names of the break_{n}_transcripts globals of the
\* multiple-breaks table.
BreakNumbers(env) == IF env.break_2 = {} THEN <<1>> ELSE <<1, 2>>

\* `[...].sort()`: list.sort sorts in place and returns None ({} here).
ListSort(l) == {}

finIdle ==
    /\ fin_pc = "idle"
    /\ fin_args = [remove_outlier_transcripts |-> FALSE]
    /\ fin_env = [transcript_ht_exists |-> FALSE, constraint_ht_exists |-> FALSE,
                  outliers |-> {}, break_1 |-> {}, break_2 |-> {}, simul |-> {}]
    /\ outlier_transcripts = {}
    /\ fin_context_ht = {}
    /\ multiple_breaks_ht = {}
    /\ simul_break_transcripts = {}
    /\ n_breaks = {}
    /\ fin_checkpoints = <<>>
    /\ fin_exc = ""
    /\ fin_log_copied = FALSE

finInit ==
    /\ fin_pc = "start"
    /\ fin_args \in [remove_outlier_transcripts : BOOLEAN]
    /\ fin_env \in FinEnvs
    /\ outlier_transcripts = {}
    /\ fin_context_ht = {}
    /\ multiple_breaks_ht = {}
    /\ simul_break_transcripts = {}
    /\ n_breaks = {}
    /\ fin_checkpoints = [p \in {"breaks.ht", "no_breaks.ht"} |->
                            [written |-> FALSE, transcripts |-> {}]]
    /\ fin_exc = ""
    /\ fin_log_copied = FALSE

FinRaise(e) ==
    /\ fin_exc' = e
    /\ fin_pc' = "finally"

\* Lines 568-571: transcript.ht does not exist, DataException.
FinTranscriptHtMissing ==
    /\ fin_pc = "start"
    /\ ~fin_env.transcript_ht_exists
    /\ FinRaise("DataException")
    /\ UNCHANGED <<fin_args, fin_env, outlier_transcripts, fin_context_ht,
                   multiple_breaks_ht, simul_break_transcripts, n_breaks,
                   fin_checkpoints, fin_log_copied>>
    /\ UNCHANGED finOthers

\* Lines 573-574 with --remove-outlier-transcripts: outlier_transcripts is
\* bound, or the LoF constraint table is missing.
FinGetOutliers ==
    /\ fin_pc = "start"
    /\ fin_env.transcript_ht_exists
    /\ fin_args.remove_outlier_transcripts
    /\ IF fin_env.constraint_ht_exists
       THEN /\ outlier_transcripts' = {get_outlier_transcripts(fin_env)}
            /\ fin_pc' = "read"
            /\ UNCHANGED fin_exc
       ELSE /\ FinRaise("DataException")
            /\ UNCHANGED outlier_transcripts
    /\ UNCHANGED <<fin_args, fin_env, fin_context_ht, multiple_breaks_ht,
                   simul_break_transcripts, n_breaks, fin_checkpoints, fin_log_copied>>
    /\ UNCHANGED finOthers

\* Line 573 without the flag: outlier_transcripts stays unbound.
FinSkipOutliers ==
    /\ fin_pc = "start"
    /\ fin_env.transcript_ht_exists
    /\ ~fin_args.remove_outlier_transcripts
    /\ fin_pc' = "read"
    /\ UNCHANGED <<fin_args, fin_env, outlier_transcripts, fin_context_ht,
                   multiple_breaks_ht, simul_break_transcripts, n_breaks,
                   fin_checkpoints, fin_exc, fin_log_copied>>
    /\ UNCHANGED finOthers

\* Lines 576-583: the filter reads outlier_transcripts, which is unbound.
FinOutliersUnbound ==
    /\ fin_pc = "read"
    /\ outlier_transcripts = {}
    /\ FinRaise("UnboundLocalError")
    /\ UNCHANGED <<fin_args, fin_env, outlier_transcripts, fin_context_ht,
                   multiple_breaks_ht, simul_break_transcripts, n_breaks,
                   fin_checkpoints, fin_log_copied>>
    /\ UNCHANGED finOthers

\* Lines 576-599: the context, multiple-breaks and simultaneous-breaks
\* tables are read and filtered to the transcripts that are not outliers.
FinReadTables ==
    /\ fin_pc = "read"
    /\ outlier_transcripts # {}
    /\ \E outliers \in outlier_transcripts :
          /\ fin_context_ht' = FinTranscripts \ outliers
          /\ multiple_breaks_ht' = fin_env.break_1 \ outliers
          /\ simul_break_transcripts' = fin_env.simul \ outliers
    /\ fin_pc' = "n_breaks"
    /\ UNCHANGED <<fin_args, fin_env, outlier_transcripts, n_breaks,
                   fin_checkpoints, fin_exc, fin_log_copied>>
    /\ UNCHANGED finOthers

\* Lines 601-607: n_breaks is the value of `[...].sort()`, and
\* `for break_num in n_breaks` iterates over it.
FinBreakNumbers ==
    /\ fin_pc = "n_breaks"
    /\ n_breaks' = ListSort(BreakNumbers(fin_env))
    /\ IF n_breaks' = {}
       THEN FinRaise("TypeError")
       ELSE /\ fin_pc' = "transcripts"
            /\ UNCHANGED fin_exc
    /\ UNCHANGED <<fin_args, fin_env, outlier_transcripts, fin_context_ht,
                   multiple_breaks_ht, simul_break_transcripts,
                   fin_checkpoints, fin_log_copied>>
    /\ UNCHANGED finOthers

\* Lines 735-737: finally, hl.copy_log(LOGGING_PATH).
FinFinally ==
    /\ fin_pc = "finally"
    /\ fin_log_copied' = TRUE
    /\ fin_pc' = "exit"
    /\ UNCHANGED <<fin_args, fin_env, outlier_transcripts, fin_context_ht,
                   multiple_breaks_ht, simul_break_transcripts, n_breaks,
                   fin_checkpoints, fin_exc>>
    /\ UNCHANGED finOthers

finNext ==
    \/ FinTranscriptHtMissing \/ FinGetOutliers \/ FinSkipOutliers
    \/ FinOutliersUnbound \/ FinReadTables \/ FinBreakNumbers \/ FinFinally

\* The transcripts of the filtered context table that have break evidence.
FinEvidence ==
    (fin_env.break_1 \cup fin_env.break_2 \cup fin_env.simul)
        \ (IF fin_args.remove_outlier_transcripts THEN fin_env.outliers ELSE {})

\* C2: when finalize has run on existing inputs, every transcript with a
\* single break, a break of an additional round or simultaneous-break
\* evidence has its rows in the breaks table and none in the no-breaks table,
\* and the two tables are disjoint.
C2_BreakEvidenceInBreaksTable ==
    (/\ fin_pc = "exit"
     /\ fin_env.transcript_ht_exists
     /\ fin_args.remove_outlier_transcripts => fin_env.constraint_ht_exists)
        => /\ \A t \in FinEvidence :
                /\ fin_checkpoints["breaks.ht"].written
                /\ t \in fin_checkpoints["breaks.ht"].transcripts
                /\ t \notin fin_checkpoints["no_breaks.ht"].transcripts
           /\ fin_checkpoints["breaks.ht"].transcripts
                \cap fin_checkpoints["no_breaks.ht"].transcripts = {}

\* ------------------------------------------------------------------------
\* regional_constraint: --search-for-simul-breaks, the grouped table
\* (rmc/pipeline/regional_constraint.py)
\* ------------------------------------------------------------------------
SimTranscripts == {"ENST01", "ENST02"}
SimPositions == {1, 2}
CumVals == {1, 2}

\* The rows of a not_one_break table, at most one per (transcript, position).
SimKeys == SimTranscripts \X SimPositions

SimRowsOf(f) ==
    {[transcript |-> k[1], position |-> k[2],
      cumulative_obs |-> f[k][1], cumulative_exp |-> f[k][2]] :
        k \in {x \in SimKeys : f[x] # <<>>}}

SimTables == {SimRowsOf(f) : f \in [SimKeys -> {<<>>} \cup (CumVals \X CumVals)]}

\* The average number of bases between missense variants.
AvgBasesBetweenMis == 3

MinObsNeverInvalid(n) == FALSE

\* `if args.min_num_obs == 0`
MinObsInvalid(n) == n = 0

\* `not file_exists(not_one_break_grouped_path) or args.create_grouped_ht`
MustCreateGrouped(files, args) ==
    files["not_one_break_grouped.ht"] = "absent" \/ args.create_grouped_ht

\* The orders in which hl.agg.collect may deliver the rows of a group.
Orderings(rows) ==
    {seq \in [1..Cardinality(rows) -> rows] :
        \A i, j \in 1..Cardinality(rows) : i # j => seq[i] # seq[j]}

GroupRows(ht, t) == {r \in ht : r.transcript = t}

GroupKeys(ht) == {r.transcript : r \in ht}

Collections(ht) ==
    {c \in [GroupKeys(ht) -> UNION {Orderings(GroupRows(ht, t)) : t \in GroupKeys(ht)}] :
        \A t \in GroupKeys(ht) : c[t] \in Orderings(GroupRows(ht, t))}

RECURSIVE SortRows(_)
SortRows(rows) ==
    IF rows = {} THEN <<>>
    ELSE LET first == CHOOSE r \in rows : \A o \in rows : r.position <= o.position
         IN  <<first>> \o SortRows(rows \ {first})

Unsorted(arr) == arr

\* hl.sorted(arr, key=lambda x: x.locus)
hl_sorted(arr) == SortRows({arr[i] : i \in DOMAIN arr})

\* Lines 431-458: one row per transcript with the sorted values projected to
\* the arrays cum_obs, cum_exp, positions, and max_idx.
GroupedRow(collected) ==
    LET values == hl_sorted(collected)
        positions == [i \in DOMAIN values |-> values[i].position]
    IN  [cum_obs |-> [i \in DOMAIN values |-> values[i].cumulative_obs],
         cum_exp |-> [i \in DOMAIN values |-> values[i].cumulative_exp],
         positions |-> positions,
         max_idx |-> Len(positions) - 1]

simIdle ==
    /\ sim_pc = "idle"
    /\ sim_args = [create_grouped_ht |-> FALSE, min_num_obs |-> 0]
    /\ sim_files = <<>>
    /\ sim_not_one_break = {}
    /\ sim_ht = {}
    /\ min_window_size = 0
    /\ sim_grouped = <<>>
    /\ sim_searched = FALSE
    /\ sim_exc = ""
    /\ sim_log_copied = FALSE

simInit ==
    /\ sim_pc = "start"
    /\ sim_args \in [create_grouped_ht : BOOLEAN, min_num_obs : 0..MaxMinNumObs]
    /\ sim_files \in [{"not_one_break", "not_one_break_grouped.ht"} ->
                        {"absent", "previous"}]
    /\ IF sim_files["not_one_break"] = "absent"
       THEN sim_not_one_break = {}
       ELSE sim_not_one_break \in SimTables
    /\ sim_ht = {}
    /\ min_window_size = 0
    /\ sim_grouped = <<>>
    /\ sim_searched = FALSE
    /\ sim_exc = ""
    /\ sim_log_copied = FALSE

SimRaise(e) ==
    /\ sim_exc' = e
    /\ sim_pc' = "finally"

\* Line 373, condition false: the existing grouped table is used.
SimUseExisting ==
    /\ sim_pc = "start"
    /\ ~MustCreateGrouped(sim_files, sim_args)
    /\ sim_pc' = "read_grouped"
    /\ UNCHANGED <<sim_args, sim_files, sim_not_one_break, sim_ht, min_window_size,
                   sim_grouped, sim_searched, sim_exc, sim_log_copied>>
    /\ UNCHANGED simOthers

\* Lines 373-381: the not_one_break table is read.
SimReadNotOneBreak ==
    /\ sim_pc = "start"
    /\ MustCreateGrouped(sim_files, sim_args)
    /\ IF sim_files["not_one_break"] = "absent"
       THEN /\ SimRaise("FatalError")
            /\ UNCHANGED sim_ht
       ELSE /\ sim_ht' = sim_not_one_break
            /\ sim_pc' = "check_min_obs"
            /\ UNCHANGED sim_exc
    /\ UNCHANGED <<sim_args, sim_files, sim_not_one_break, min_window_size,
                   sim_grouped, sim_searched, sim_log_copied>>
    /\ UNCHANGED simOthers

\* Lines 383-386: a minimum number of observed variants of 0, DataException.
SimZeroMinObs ==
    /\ sim_pc = "check_min_obs"
    /\ MinObsInvalid(sim_args.min_num_obs)
    /\ SimRaise("DataException")
    /\ UNCHANGED <<sim_args, sim_files, sim_not_one_break, sim_ht, min_window_size,
                   sim_grouped, sim_searched, sim_log_copied>>
    /\ UNCHANGED simOthers

\* Lines 388-459: min_window_size, the grouped table, its write with
\* overwrite=True.
SimWriteGrouped ==
    /\ sim_pc = "check_min_obs"
    /\ ~MinObsInvalid(sim_args.min_num_obs)
    /\ min_window_size' = AvgBasesBetweenMis * sim_args.min_num_obs
    /\ \E collected \in Collections(sim_ht) :
          sim_grouped' = [t \in GroupKeys(sim_ht) |-> GroupedRow(collected[t])]
    /\ sim_files' = WriteTable(sim_files, "not_one_break_grouped.ht")
    /\ sim_pc' = "read_grouped"
    /\ UNCHANGED <<sim_args, sim_not_one_break, sim_ht, sim_searched, sim_exc,
                   sim_log_copied>>
    /\ UNCHANGED simOthers

\* Lines 461-464: the grouped table is read and described; the search itself
\* is commented out.
SimReadGrouped ==
    /\ sim_pc = "read_grouped"
    /\ sim_pc' = "finally"
    /\ UNCHANGED <<sim_args, sim_files, sim_not_one_break, sim_ht, min_window_size,
                   sim_grouped, sim_searched, sim_exc, sim_log_copied>>
    /\ UNCHANGED simOthers

\* Lines 735-737: finally, hl.copy_log(LOGGING_PATH).
SimFinally ==
    /\ sim_pc = "finally"
    /\ sim_log_copied' = TRUE
    /\ sim_pc' = "exit"
    /\ UNCHANGED <<sim_args, sim_files, sim_not_one_break, sim_ht, min_window_size,
                   sim_grouped, sim_searched, sim_exc>>
    /\ UNCHANGED simOthers

simNext ==
    \/ SimUseExisting \/ SimReadNotOneBreak \/ SimZeroMinObs \/ SimWriteGrouped
    \/ SimReadGrouped \/ SimFinally

\* The run failed on its configuration and left the grouped table alone.
SimRejected ==
    /\ sim_exc = "DataException"
    /\ sim_files["not_one_break_grouped.ht"] \in {"absent", "previous"}
    /\ ~sim_searched

\* C11 as stated: every run of the phase (on an existing not_one_break
\* table) with a minimum number of observed variants of 0 fails with the invalid-configuration error, writes no
\* grouped table and performs no search.
C11_ZeroMinObsAlwaysFatal ==
    (sim_pc = "exit" /\ sim_args.min_num_obs = 0
        /\ sim_files["not_one_break"] # "absent") => SimRejected

\* C11, amended: a run with a minimum of 0 that has to create the grouped
\* table (it does not exist, or --create-grouped-ht) and finds the
\* not_one_break table fails with the invalid-configuration error, writes no
\* grouped table and performs no search; a run that uses the existing
\* grouped table never looks at the minimum and ends without error.
C11_ZeroMinObsFatalWhenGrouping ==
    (sim_pc = "exit" /\ sim_args.min_num_obs = 0)
        => /\ (MustCreateGrouped(sim_files, sim_args)
                    /\ sim_files["not_one_break"] # "absent") => SimRejected
           /\ ~MustCreateGrouped(sim_files, sim_args)
                => (sim_exc = "" /\ sim_files["not_one_break_grouped.ht"] = "previous")

\* A run with --create-grouped-ht and a minimum of 0 over an existing grouped
\* table was rejected.
C11_Witness ==
    /\ sim_pc = "exit"
    /\ sim_args.min_num_obs = 0
    /\ sim_args.create_grouped_ht
    /\ sim_files["not_one_break_grouped.ht"] = "previous"
    /\ sim_ht # {}
    /\ SimRejected

\* C19: every group of the grouped table has cum_obs, cum_exp and positions
\* arrays of equal length holding exactly the values of the group's rows in
\* the ungrouped table, element i of the three arrays from the same row, in
\* ascending locus order, and max_idx is the array length minus 1.
C19_GroupedArraysMatchRows ==
    sim_files["not_one_break_grouped.ht"] \in {"written", "replaced"}
        => /\ DOMAIN sim_grouped = GroupKeys(sim_ht)
           /\ \A t \in DOMAIN sim_grouped :
                LET g == sim_grouped[t]
                    n == Cardinality(GroupRows(sim_ht, t))
                IN  /\ Len(g.cum_obs) = n
                    /\ Len(g.cum_exp) = n
                    /\ Len(g.positions) = n
                    /\ g.max_idx = n - 1
                    /\ \A i \in 1..n :
                          \E r \in GroupRows(sim_ht, t) :
                             /\ r.position = g.positions[i]
                             /\ r.cumulative_obs = g.cum_obs[i]
                             /\ r.cumulative_exp = g.cum_exp[i]
                    /\ \A i, j \in 1..n : i < j => g.positions[i] < g.positions[j]

\* A grouped table was written with a group of two rows whose values differ.
C19_Witness ==
    /\ sim_files["not_one_break_grouped.ht"] \in {"written", "replaced"}
    /\ \E t \in DOMAIN sim_grouped :
          /\ sim_grouped[t].positions = <<1, 2>>
          /\ sim_grouped[t].cum_obs = <<1, 2>>
          /\ sim_grouped[t].cum_exp = <<2, 1>>
          /\ sim_grouped[t].max_idx = 1

\* ------------------------------------------------------------------------
\* calculate_mpc (rmc/pipeline/calculate_mpc.py)
\* ------------------------------------------------------------------------
\* The names the subparsers register; argparse stores the one given in
\* args.command.
MpcCommands == {"prepare-ht", "run-glm", "calculate-mpc", "annotate-hts"}

\* Lines 54-87: the annotate_mpc calls of the branch
\* `if args.command == "annotate_hts"`, named by their output.
AnnotateHtsCalls(args) ==
    IF args.command = "annotate_hts"
    THEN (IF args.clinvar THEN {"clinvar_mpc_annot.ht"} ELSE {})
         \cup (IF args.dd
               THEN {"dd_case_mpc_annot.ht", "dd_control_mpc_annot.ht"} ELSE {})
         \cup (IF args.specify_ht THEN {"ht_out_path"} ELSE {})
    ELSE {}

\* Lines 36-87: what main calls for the given arguments.
MainCalls(args) ==
    (IF args.command = "prepare-ht" THEN {"prepare_pop_path_ht"} ELSE {})
    \cup (IF args.command = "run-glm" THEN {"run_regressions"} ELSE {})
    \cup (IF args.command = "calculate-mpc" THEN {"create_mpc_release_ht"} ELSE {})
    \cup AnnotateHtsCalls(args)

mpcIdle ==
    /\ mpc_pc = "idle"
    /\ mpc_args = [command |-> "", clinvar |-> FALSE, dd |-> FALSE,
                   specify_ht |-> FALSE, overwrite |-> FALSE]
    /\ mpc_calls = {}
    /\ mpc_log_copied = FALSE

mpcInit ==
    /\ mpc_pc = "main"
    /\ mpc_args \in [command : MpcCommands, clinvar : BOOLEAN, dd : BOOLEAN,
                     specify_ht : BOOLEAN, overwrite : BOOLEAN]
    /\ mpc_calls = {}
    /\ mpc_log_copied = FALSE

\* Lines 35-87: the body of the try block.
MpcMain ==
    /\ mpc_pc = "main"
    /\ mpc_calls' = MainCalls(mpc_args)
    /\ mpc_pc' = "finally"
    /\ UNCHANGED <<mpc_args, mpc_log_copied>>
    /\ UNCHANGED mpcOthers

\* Lines 89-91: finally, hl.copy_log(LOGGING_PATH).
MpcFinally ==
    /\ mpc_pc = "finally"
    /\ mpc_log_copied' = TRUE
    /\ mpc_pc' = "exit"
    /\ UNCHANGED <<mpc_args, mpc_calls>>
    /\ UNCHANGED mpcOthers

mpcNext == MpcMain \/ MpcFinally

\* C12: a run of the annotate-hts subcommand has annotated and written the
\* ClinVar table with --clinvar, the case and the control de-novo tables
\* with --dd, and the caller's table with --specify-ht.
C12_AnnotateHtsAnnotates ==
    (mpc_pc = "exit" /\ mpc_args.command = "annotate-hts")
        => /\ mpc_args.clinvar => "clinvar_mpc_annot.ht" \in mpc_calls
           /\ mpc_args.dd => {"dd_case_mpc_annot.ht", "dd_control_mpc_annot.ht"}
                                \subseteq mpc_calls
           /\ mpc_args.specify_ht => "ht_out_path" \in mpc_calls

\* ------------------------------------------------------------------------
\* Expression builders and scores (rmc/utils/generic.py, constraint.py,
\* missense_badness.py, mpc.py)
\* ------------------------------------------------------------------------
\* Floats are fixed-point with three decimals (1000 is 1.0).  A value that
\* may be missing is a set with at most one element.
One == 10 * 100

\* hl.log10 of the integers the bounded inputs use, x1000.
Log10x1000(n) ==
    CASE n = 1 -> 0    [] n = 2 -> 301  [] n = 3 -> 477  [] n = 4 -> 602
      [] n = 5 -> 699  [] n = 6 -> 778  [] n = 39 -> 1591
      [] n = 40 -> 1602 [] n = 41 -> 1613

\* hl.min(x, y)
hl_min(x, y) == IF x <= y THEN x ELSE y

\* hl.or_missing(cond, value)
or_missing(cond, value) == IF cond THEN {value} ELSE {}

fnIdle ==
    /\ fn_pc = "idle"
    /\ fn_call = [name |-> "none"]
    /\ fn_result = {}

\* --- get_coverage_correction_expr (generic.py) ---
CoverageVals == {0, 1, 2, 3, 39, 40, 41}
CutoffVals == {0, 2, 40}

CoverageCorrectionCutoffFirst(coverage, coverage_model, high_cov_cutoff) ==
    IF coverage >= high_cov_cutoff THEN One
    ELSE IF coverage = 0 THEN 0
    ELSE coverage_model[2] * Log10x1000(coverage) + coverage_model[1] * One

\* hl.case().when(coverage == 0, 0).when(coverage >= high_cov_cutoff, 1)
\* .default(coverage_model[1] * hl.log10(coverage) + coverage_model[0]);
\* coverage_model is <<intercept, slope>> (Python indices 0 and 1).
get_coverage_correction_expr(coverage, coverage_model, high_cov_cutoff) ==
    IF coverage = 0 THEN 0
    ELSE IF coverage >= high_cov_cutoff THEN One
    ELSE coverage_model[2] * Log10x1000(coverage) + coverage_model[1] * One

CoverageCalls ==
    [name : {"get_coverage_correction_expr"}, coverage : CoverageVals,
     coverage_model : {0, 1} \X {0, 1, 2}, high_cov_cutoff : CutoffVals]

FnCoverageCorrection ==
    /\ fn_pc = "call"
    /\ fn_call.name = "get_coverage_correction_expr"
    /\ fn_result' = {get_coverage_correction_expr(
                        fn_call.coverage, fn_call.coverage_model,
                        fn_call.high_cov_cutoff)}
    /\ fn_pc' = "done"
    /\ UNCHANGED fn_call
    /\ UNCHANGED fnOthers

FnDone(name) == fn_pc = "done" /\ fn_call.name = name

\* C13: get_coverage_correction_expr(c, model, cutoff) is 0 when c = 0, for
\* every cutoff; 1 when c is not 0 and c >= cutoff; otherwise
\* model.slope * log10(c) + model.intercept.
C13_CoverageCorrectionCases ==
    FnDone("get_coverage_correction_expr") =>
        LET c == fn_call.coverage
            intercept == fn_call.coverage_model[1]
            slope == fn_call.coverage_model[2]
        IN  /\ c = 0 => fn_result = {0}
            /\ (c # 0 /\ c >= fn_call.high_cov_cutoff) => fn_result = {One}
            /\ (c # 0 /\ c < fn_call.high_cov_cutoff)
                => fn_result = {slope * Log10x1000(c) + intercept * One}

\* Coverage 0 with a cutoff of 0: both conditions hold and the result is 0.
C13_Witness ==
    /\ FnDone("get_coverage_correction_expr")
    /\ fn_call.coverage = 0
    /\ fn_call.high_cov_cutoff = 0
    /\ fn_result = {0}

\* --- get_obs_exp_expr (constraint.py), overall_oe (regional_constraint.py) ---
ObsVals == {0, 1, 2, 7}

\* Expected counts, in tenths.
ExpTenths == {5, 10, 25}

\* obs / exp, x1000.
Ratio(obs, exp_tenths) == (obs * 10 * One) \div exp_tenths

ObsExpUncapped(cond_expr, obs_expr, exp_expr) ==
    or_missing(cond_expr, Ratio(obs_expr, exp_expr))

\* hl.or_missing(cond_expr, hl.min(obs_expr / exp_expr, 1))
get_obs_exp_expr(cond_expr, obs_expr, exp_expr) ==
    or_missing(cond_expr, hl_min(Ratio(obs_expr, exp_expr), One))

\* overall_oe=hl.min(context_ht.total_obs / context_ht.total_exp, 1)
overall_oe(total_obs, total_exp) == hl_min(Ratio(total_obs, total_exp), One)

ObsExpCalls ==
    [name : {"get_obs_exp_expr", "overall_oe"}, cond : BOOLEAN,
     obs : ObsVals, exp : ExpTenths]

FnObsExp ==
    /\ fn_pc = "call"
    /\ fn_call.name = "get_obs_exp_expr"
    /\ fn_result' = get_obs_exp_expr(fn_call.cond, fn_call.obs, fn_call.exp)
    /\ fn_pc' = "done"
    /\ UNCHANGED fn_call
    /\ UNCHANGED fnOthers

FnOverallOe ==
    /\ fn_pc = "call"
    /\ fn_call.name = "overall_oe"
    /\ fn_result' = {overall_oe(fn_call.obs, fn_call.exp)}
    /\ fn_pc' = "done"
    /\ UNCHANGED fn_call
    /\ UNCHANGED fnOthers

\* C14: for a positive observed/expected pair get_obs_exp_expr is
\* min(obs/exp, 1), never above 1, when its condition holds and missing when
\* it does not; the overall_oe of prep-for-constraint is never above 1.
C14_ObsExpCappedAtOne ==
    /\ FnDone("get_obs_exp_expr") =>
        /\ ~fn_call.cond => fn_result = {}
        /\ fn_call.cond =>
            /\ fn_result = {hl_min(Ratio(fn_call.obs, fn_call.exp), One)}
            /\ \A r \in fn_result : r <= One
    /\ FnDone("overall_oe") => \A r \in fn_result : r <= One

\* 7 observed over 2.5 expected: the ratio 2.8 is capped at 1.
C14_Witness ==
    /\ FnDone("get_obs_exp_expr")
    /\ fn_call.cond
    /\ Ratio(fn_call.obs, fn_call.exp) > One
    /\ fn_result = {One}

\* --- keep_criteria (generic.py) ---
\* Allele frequencies and thresholds in units of 0.0001.
AfVals == {0, 5, 10, 100}
AfThresholds == {10, 100}
CovThresholds == {0, 10}

KeepCriteriaInclusive(ac_expr, af_expr, filters_expr, cov_expr, af_threshold, cov_threshold) ==
    /\ ac_expr > 0
    /\ af_expr <= af_threshold
    /\ Cardinality(filters_expr) = 0
    /\ cov_expr > cov_threshold

\* (ac_expr > 0) & (af_expr < af_threshold) & (hl.len(filters_expr) == 0)
\* & (cov_expr > cov_threshold)
keep_criteria(ac_expr, af_expr, filters_expr, cov_expr, af_threshold, cov_threshold) ==
    /\ ac_expr > 0
    /\ af_expr < af_threshold
    /\ Cardinality(filters_expr) = 0
    /\ cov_expr > cov_threshold

KeepCalls ==
    [name : {"keep_criteria"}, ac : {0, 5}, af : AfVals,
     filters : {{}, {"AC0"}}, cov : {0, 10, 11},
     af_threshold : AfThresholds, cov_threshold : CovThresholds]

FnKeepCriteria ==
    /\ fn_pc = "call"
    /\ fn_call.name = "keep_criteria"
    /\ fn_result' = {keep_criteria(fn_call.ac, fn_call.af, fn_call.filters,
                                   fn_call.cov, fn_call.af_threshold,
                                   fn_call.cov_threshold)}
    /\ fn_pc' = "done"
    /\ UNCHANGED fn_call
    /\ UNCHANGED fnOthers

\* C15: keep_criteria retains a row iff allele count > 0, allele frequency
\* strictly below af_threshold, no filters, and median coverage strictly
\* above cov_threshold; allele count 0 and allele frequency equal to the
\* threshold are rejected.
C15_KeepCriteriaIff ==
    FnDone("keep_criteria") =>
        /\ fn_result = {/\ fn_call.ac > 0
                        /\ fn_call.af < fn_call.af_threshold
                        /\ fn_call.filters = {}
                        /\ fn_call.cov > fn_call.cov_threshold}
        /\ fn_call.ac = 0 => fn_result = {FALSE}
        /\ fn_call.af = fn_call.af_threshold => fn_result = {FALSE}

\* Allele count 5, frequency 0.0005, no filters, coverage 10, defaults: kept.
C15_Witness ==
    /\ FnDone("keep_criteria")
    /\ fn_call.ac = 5 /\ fn_call.af = 5 /\ fn_call.filters = {}
    /\ fn_call.cov = 10 /\ fn_call.af_threshold = 10 /\ fn_call.cov_threshold = 0
    /\ fn_result = {TRUE}

\* --- calculate_misbad (missense_badness.py) ---
AminoAcids == {"Ala", "Gly", "STOP"}

\* Every pair labelled missense, whatever its amino acids.
AllMissense(ref, alt) == "mis"

\* hl.case(): the first branch whose condition holds decides.
variant_csq_expr(ref, alt) ==
    IF ref = alt THEN "syn"
    ELSE IF alt = "STOP" THEN "non"
    ELSE IF ref = "STOP" THEN "rdt"
    ELSE "mis"

\* Quotient of two fixed-point numbers, as a fixed-point number (floor).
FixDiv(a, b) ==
    IF b < 0 THEN ((0 - a) * One) \div (0 - b) ELSE (a * One) \div b

\* The misbad annotation of one (ref, alt) row of mb_ht.
misbad(ref, alt, high_low, syn_rate, non_rate) ==
    or_missing(variant_csq_expr(ref, alt) = "mis",
               hl_min(FixDiv(high_low - syn_rate, non_rate - syn_rate), One))

HighLowVals == {0, 800, 1500, 3000}
SynRates == {1000}
NonRates == {500, 2000}

MisbadCalls ==
    [name : {"calculate_misbad"}, ref : AminoAcids, alt : AminoAcids,
     high_low : HighLowVals, syn_rate : SynRates, non_rate : NonRates]

FnCalculateMisbad ==
    /\ fn_pc = "call"
    /\ fn_call.name = "calculate_misbad"
    /\ fn_result' = misbad(fn_call.ref, fn_call.alt, fn_call.high_low,
                           fn_call.syn_rate, fn_call.non_rate)
    /\ fn_pc' = "done"
    /\ UNCHANGED fn_call
    /\ UNCHANGED fnOthers

\* C16: calculate_misbad gives every missense (ref, alt) pair the score
\* min((high_low - syn_rate) / (non_rate - syn_rate), 1), never above 1, and
\* gives an absent score to every pair with ref = alt, alt = STOP or
\* ref = STOP (STOP to STOP included).
C16_MisbadCappedOrAbsent ==
    FnDone("calculate_misbad") =>
        LET nonmis == \/ fn_call.ref = fn_call.alt
                      \/ fn_call.alt = "STOP"
                      \/ fn_call.ref = "STOP"
            num == fn_call.high_low - fn_call.syn_rate
            den == fn_call.non_rate - fn_call.syn_rate
            raw == IF den < 0 THEN ((0 - num) * One) \div (0 - den)
                   ELSE (num * One) \div den
        IN  /\ nonmis => fn_result = {}
            /\ ~nonmis =>
                  /\ fn_result = {IF raw > One THEN One ELSE raw}
                  /\ \A s \in fn_result : s <= One

\* Ala to Gly with high_low 3, syn_rate 1, non_rate 2: raw ratio 2, score 1.
C16_Witness ==
    /\ FnDone("calculate_misbad")
    /\ fn_call.ref = "Ala" /\ fn_call.alt = "Gly"
    /\ fn_call.high_low = 3000 /\ fn_call.syn_rate = 1000
    /\ fn_call.non_rate = 2000
    /\ fn_result = {One}

\* --- MPC from the fitted score (mpc.py, run_regressions docstring) ---
MaxCohort == 3

FittedVals == {1, 2, 3}

\* Reference cohorts: the fitted scores of 1..MaxCohort variants.
Cohorts == UNION {[1..n -> FittedVals] : n \in 1..MaxCohort}

\* -log10(0): larger than every finite score.
Infinity == 10 * One

\* Number of cohort variants with a fitted score above the variant's.
NGreater(cohort, fitted) ==
    Cardinality({i \in DOMAIN cohort : cohort[i] > fitted})

\* n_less(v) = number of cohort variants with fitted_score < fitted_score(v)
n_less(cohort, fitted) ==
    Cardinality({i \in DOMAIN cohort : cohort[i] < fitted})

\* mpc(v) = -log10(n_less(v) / N), in thousandths.
mpc(cohort, fitted) ==
    LET n == n_less(cohort, fitted)
    IN  IF n = 0 THEN Infinity
        ELSE Log10x1000(Len(cohort)) - Log10x1000(n)

MpcCalls ==
    [name : {"mpc"}, cohort : Cohorts, v : FittedVals, w : FittedVals]

FnMpc ==
    /\ fn_pc = "call"
    /\ fn_call.name = "mpc"
    /\ fn_result' = {[v |-> mpc(fn_call.cohort, fn_call.v),
                      w |-> mpc(fn_call.cohort, fn_call.w)]}
    /\ fn_pc' = "done"
    /\ UNCHANGED fn_call
    /\ UNCHANGED fnOthers

\* C17 as stated: for a fixed cohort and MPC(v) = -log10(n_less(v) / N),
\* fitted(v) <= fitted(w) implies MPC(v) <= MPC(w).
C17_MpcNonDecreasing ==
    FnDone("mpc") =>
        \A r \in fn_result : fn_call.v <= fn_call.w => r.v <= r.w

\* C17, amended: for a fixed cohort and MPC(v) = -log10(n_less(v) / N),
\* fitted(v) <= fitted(w) implies MPC(v) >= MPC(w): raising a variant's
\* fitted score never raises its MPC score.
C17_MpcNonIncreasing ==
    FnDone("mpc") =>
        \A r \in fn_result : fn_call.v <= fn_call.w => r.v >= r.w

\* Cohort <<1, 2, 3>>: the variant with fitted score 2 has n_less = 1 and the
\* one with fitted score 3 has n_less = 2, so the lower score has the higher
\* MPC.
C17_Witness ==
    /\ FnDone("mpc")
    /\ fn_call.cohort = <<1, 2, 3>>
    /\ fn_call.v = 2 /\ fn_call.w = 3
    /\ fn_result = {[v |-> 477, w |-> 176]}

\* --- import_blosum (mpc.py) ---
\* One-letter codes of the matrix file: two amino acids, the ambiguity code
\* B (not an amino acid) and the terminator.
BlosumCodes == {"A", "R", "B", "*"}

BlosumItems == {"4", "-1"}

\* float(item) for the score strings of the file.
float(item) == CASE item = "4" -> 4 [] item = "-1" -> 0 - 1

\* get_aa_map(): one-letter name to three-letter name, with or without a
\* line for the terminator in the acid names file.
AaMapWithStop ==
    [c \in {"A", "R", "STOP"} |->
        CASE c = "A" -> "Ala" [] c = "R" -> "Arg" [] c = "STOP" -> "STOP"]

AaMapWithoutStop ==
    [c \in {"A", "R"} |-> CASE c = "A" -> "Ala" [] c = "R" -> "Arg"]

AaMaps == {AaMapWithStop, AaMapWithoutStop}

\* The asterisk left as it is.
KeepStar(item) == item

\* if item == "*": item = "STOP"
StarToStop(item) == IF item = "*" THEN "STOP" ELSE item

RECURSIVE Flatten(_)
Flatten(seqs) ==
    IF seqs = <<>> THEN <<>> ELSE Head(seqs) \o Flatten(Tail(seqs))

\* The header line after the leading '.', two distinct codes.
BlosumHeaders ==
    {h \in BlosumCodes \X BlosumCodes : h[1] # h[2]}

\* Data lines: a code and one score per header column.
BlosumLines ==
    [aa : BlosumCodes, items : {<<x, y>> : x \in BlosumItems, y \in BlosumItems}]

BlosumFiles ==
    [header : BlosumHeaders,
     lines : {l \in BlosumLines \X BlosumLines : l[1].aa # l[2].aa}]

\* The entries one data line appends to blosum_scores, as the (ref, alt,
\* score) rows convert_score_list_to_ht makes of them.
LineScores(aa_map, header_dict, line) ==
    LET aa == StarToStop(line.aa)
        cell(col) ==
            LET alt_aa == header_dict[col]
            IN  IF alt_aa \notin DOMAIN aa_map THEN <<>>
                ELSE <<[ref |-> aa_map[aa], alt |-> aa_map[alt_aa],
                        score |-> float(line.items[col])]>>
    IN  IF aa \notin DOMAIN aa_map THEN <<>>
        ELSE Flatten([col \in DOMAIN line.items |-> cell(col)])

import_blosum(aa_map, file) ==
    LET header_dict ==
            [col \in DOMAIN file.header |-> StarToStop(file.header[col])]
    IN  Flatten([n \in DOMAIN file.lines |->
                    LineScores(aa_map, header_dict, file.lines[n])])

BlosumCalls == [name : {"import_blosum"}, aa_map : AaMaps, file : BlosumFiles]

FnImportBlosum ==
    /\ fn_pc = "call"
    /\ fn_call.name = "import_blosum"
    /\ fn_result' = {import_blosum(fn_call.aa_map, fn_call.file)}
    /\ fn_pc' = "done"
    /\ UNCHANGED fn_call
    /\ UNCHANGED fnOthers

\* C18: for every data line code and header column code of the matrix file
\* that are both in the amino-acid map ('*' read as STOP), import_blosum
\* records exactly one (ref, alt) entry, with the number at that line and
\* column as its score; it records no entry for a line or column whose code
\* is not in the map.
C18_BlosumEntries ==
    FnDone("import_blosum") =>
        LET file == fn_call.file
            aa_map == fn_call.aa_map
            code(c) == IF c = "*" THEN "STOP" ELSE c
            present(c) == code(c) \in DOMAIN aa_map
            at(t, n, j) ==
                {k \in DOMAIN t :
                    /\ t[k].ref = aa_map[code(file.lines[n].aa)]
                    /\ t[k].alt = aa_map[code(file.header[j])]}
            both(n, j) == present(file.lines[n].aa) /\ present(file.header[j])
        IN  \A t \in fn_result :
              /\ \A n \in DOMAIN file.lines, j \in DOMAIN file.header :
                    both(n, j) =>
                        /\ Cardinality(at(t, n, j)) = 1
                        /\ \A k \in at(t, n, j) :
                              t[k].score = float(file.lines[n].items[j])
              /\ \A k \in DOMAIN t :
                    \E n \in DOMAIN file.lines, j \in DOMAIN file.header :
                        both(n, j) /\ k \in at(t, n, j)

\* Header A and '*', lines '*' and B, a map with STOP: the '*' line gives the
\* two entries STOP to Ala and STOP to STOP, the B line none.
C18_Witness ==
    /\ FnDone("import_blosum")
    /\ fn_call.aa_map = AaMapWithStop
    /\ fn_call.file.header = <<"A", "*">>
    /\ fn_call.file.lines = <<[aa |-> "*", items |-> <<"4", "-1">>],
                              [aa |-> "B", items |-> <<"4", "4">>]>>
    /\ fn_result = {<<[ref |-> "STOP", alt |-> "Ala", score |-> 4],
                      [ref |-> "STOP", alt |-> "STOP", score |-> 0 - 1]>>}

\* --- prepare_pop_path_ht (mpc.py) ---
\* The annotations of a row of the joint ClinVar/gnomAD table.
TrainingAnnotations ==
    {"cadd.raw", "cadd.phred", "polyphen.prediction", "polyphen.score",
     "misbad", "oe", "blosum", "grantham"}

\* A row, as the set of its annotations that are defined.
TrainingRows == SUBSET TrainingAnnotations

\* The ht.filter() before the write: hl.is_defined of six fields.
DefinedAnnotationsFilter(row) ==
    /\ "cadd.phred" \in row
    /\ "blosum" \in row
    /\ "grantham" \in row
    /\ "oe" \in row
    /\ "polyphen.score" \in row
    /\ "misbad" \in row

\* The rows of joint_clinvar_gnomad written for a table holding one row.
prepare_pop_path_ht(row) ==
    IF DefinedAnnotationsFilter(row) THEN {row} ELSE {}

PopPathCalls == [name : {"prepare_pop_path_ht"}, row : TrainingRows]

FnPreparePopPath ==
    /\ fn_pc = "call"
    /\ fn_call.name = "prepare_pop_path_ht"
    /\ fn_result' = prepare_pop_path_ht(fn_call.row)
    /\ fn_pc' = "done"
    /\ UNCHANGED fn_call
    /\ UNCHANGED fnOthers

\* C20: every row of the training table written by prepare_pop_path_ht has
\* CADD raw and phred, PolyPhen-2 prediction and score, missense badness,
\* observed/expected, BLOSUM and Grantham all defined; a row with any one of
\* them undefined is not written.
C20_WrittenRowsFullyAnnotated ==
    FnDone("prepare_pop_path_ht") =>
        /\ \A row \in fn_result : row = TrainingAnnotations
        /\ fn_call.row # TrainingAnnotations => fn_result = {}

\* --- process_additional_breaks, the section annotation (constraint.py) ---
\* hl.format("%s_%s", transcript, name)
SectionOf(transcript, name) == transcript \o "_" \o name

\* The breakpoint row put in the first section.
SectionBreakInPre(transcript, position, is_first_break, first_break_position) ==
    IF position > first_break_position
    THEN SectionOf(transcript, "post")
    ELSE SectionOf(transcript, "pre")

\* The section annotation of one row; first_break_position is
\* first_break_ht[ht.transcript].locus.position.
section(transcript, position, is_first_break, first_break_position) ==
    IF ~is_first_break
    THEN IF position > first_break_position
         THEN SectionOf(transcript, "post")
         ELSE SectionOf(transcript, "pre")
    ELSE SectionOf(transcript, "post")

\* A one-break transcript: rows at distinct positions (the table is keyed by
\* locus and transcript), one of them flagged is_break.
OneBreakTranscripts ==
    {[name |-> "process_additional_breaks", transcript |-> t,
      rows |-> [p \in ps |-> [is_break |-> p = b]]] :
        t \in {"ENST01", "ENST02"}, ps \in SUBSET (1..MaxPos), b \in 1..MaxPos}

SectionCalls == {c \in OneBreakTranscripts : \E p \in DOMAIN c.rows : c.rows[p].is_break}

\* ht.filter(ht.is_break) keyed by transcript: the position of the break row.
first_break_ht(rows) == CHOOSE p \in DOMAIN rows : rows[p].is_break

FnSections ==
    /\ fn_pc = "call"
    /\ fn_call.name = "process_additional_breaks"
    /\ fn_result' =
          {[p \in DOMAIN fn_call.rows |->
              section(fn_call.transcript, p, fn_call.rows[p].is_break,
                      first_break_ht(fn_call.rows))]}
    /\ fn_pc' = "done"
    /\ UNCHANGED fn_call
    /\ UNCHANGED fnOthers

\* C24: process_additional_breaks puts every row of a one-break transcript in
\* exactly one of <transcript>_pre and <transcript>_post: positions strictly
\* below the breakpoint in pre, positions strictly above in post, and the
\* breakpoint row itself in post.
C24_SectionsSplitAtBreak ==
    FnDone("process_additional_breaks") =>
        \A r \in fn_result :
            /\ DOMAIN r = DOMAIN fn_call.rows
            /\ \A p \in DOMAIN r : \A b \in DOMAIN r :
                  fn_call.rows[b].is_break =>
                      /\ p < b => r[p] = fn_call.transcript \o "_pre"
                      /\ p > b => r[p] = fn_call.transcript \o "_post"
                      /\ p = b => r[p] = fn_call.transcript \o "_post"

\* Rows at 1, 2, 3 with the break at 2: 1 is pre, 2 and 3 are post.
C24_Witness ==
    /\ FnDone("process_additional_breaks")
    /\ fn_call.transcript = "ENST01"
    /\ DOMAIN fn_call.rows = {1, 2, 3}
    /\ fn_call.rows[2].is_break
    /\ fn_result = {[p \in {1, 2, 3} |->
                        IF p = 1 THEN "ENST01_pre" ELSE "ENST01_post"]}

\* --- calculate_exp_per_transcript (constraint.py) ---
\* A (transcript, cpg, exome_coverage) group of one transcript after the
\* aggregation: its summed mutation rate, and the coverage correction its
\* exome_coverage gets.
MuAggVals == {0, 1, 2}
CorrectionVals == {1, 2}

ExpGroups == [mu_agg : MuAggVals, coverage_correction : CorrectionVals]

\* The plateau model of the groups: <<intercept, slope>>.
PlateauModels == {<<1, 2>>}

\* group_ht.transmute(mu_adj=group_ht.mu_agg * model[1] + model[0]): mu_adj
\* is added and mu_agg, the field the expression reads, is dropped.
transmute(group, model) ==
    [mu_adj |-> group.mu_agg * model[2] + model[1],
     coverage_correction |-> group.coverage_correction]

RECURSIVE SumSeq(_)
SumSeq(q) == IF q = <<>> THEN 0 ELSE Head(q) + SumSeq(Tail(q))

\* The rest of the function on the transmuted groups:
\* _exp = group_ht.mu_agg * group_ht.coverage_correction, summed per
\* transcript.  Reading a field the table does not have raises AttributeError.
calculate_exp_per_transcript(groups, model) ==
    LET group_ht == [i \in DOMAIN groups |-> transmute(groups[i], model)]
    IN  IF \E i \in DOMAIN group_ht : "mu_agg" \notin DOMAIN group_ht[i]
        THEN [kind |-> "AttributeError", total_exp |-> 0]
        ELSE [kind |-> "Table",
              total_exp |->
                 SumSeq([i \in DOMAIN group_ht |->
                            group_ht[i].mu_agg * group_ht[i].coverage_correction])]

ExpCalls ==
    [name : {"calculate_exp_per_transcript"},
     groups : {<<g>> : g \in ExpGroups} \cup (ExpGroups \X ExpGroups),
     model : PlateauModels]

FnCalculateExp ==
    /\ fn_pc = "call"
    /\ fn_call.name = "calculate_exp_per_transcript"
    /\ fn_result' = {calculate_exp_per_transcript(fn_call.groups, fn_call.model)}
    /\ fn_pc' = "done"
    /\ UNCHANGED fn_call
    /\ UNCHANGED fnOthers

\* C27: calculate_exp_per_transcript returns total_exp equal to the sum over
\* the transcript's groups of (mu_agg * plateau slope + plateau intercept) *
\* coverage correction.
C27_TotalExpPlateauAdjusted ==
    FnDone("calculate_exp_per_transcript") =>
        \A r \in fn_result :
            /\ r.kind = "Table"
            /\ r.total_exp =
                  SumSeq([i \in DOMAIN fn_call.groups |->
                            (fn_call.groups[i].mu_agg * fn_call.model[2]
                                + fn_call.model[1])
                            * fn_call.groups[i].coverage_correction])

\* --- calculate_misbad, the split by OE (missense_badness.py) ---
\* OE values and thresholds in tenths.
OeVals == {5, 6, 7, 8, 9}
OeThresholds == {6, 8}

\* oe_threshold: float = 0.6, the default of aggregate_aa_and_filter_oe.
DefaultOeThreshold == 6

\* (ht.oe > oe_threshold) if keep_high_oe else (ht.oe <= oe_threshold)
oe_filter_expr(oe, keep_high_oe, oe_threshold) ==
    IF keep_high_oe THEN oe > oe_threshold ELSE oe <= oe_threshold

\* ht.filter((ht.oe <= 0.6) | (ht.oe > 0.8)) when use_exac_oe_cutoffs is set.
ExacCutoffsKeep(oe, use_exac_oe_cutoffs) ==
    use_exac_oe_cutoffs => (oe <= 6 \/ oe > 8)

\* aggregate_aa_and_filter_oe(ht, keep_high_oe=...) as calculate_misbad calls
\* it, without oe_threshold: whether a row of the catalog is counted in the
\* high-OE and in the low-OE table.
SplitByOe(oe, use_exac_oe_cutoffs, oe_threshold) ==
    [high |-> /\ ExacCutoffsKeep(oe, use_exac_oe_cutoffs)
              /\ oe_filter_expr(oe, TRUE, DefaultOeThreshold),
     low |-> /\ ExacCutoffsKeep(oe, use_exac_oe_cutoffs)
             /\ oe_filter_expr(oe, FALSE, DefaultOeThreshold)]

SplitCalls ==
    [name : {"calculate_misbad_split"}, oe : OeVals,
     use_exac_oe_cutoffs : BOOLEAN, oe_threshold : OeThresholds]

FnSplitByOe ==
    /\ fn_pc = "call"
    /\ fn_call.name = "calculate_misbad_split"
    /\ fn_result' = {SplitByOe(fn_call.oe, fn_call.use_exac_oe_cutoffs,
                               fn_call.oe_threshold)}
    /\ fn_pc' = "done"
    /\ UNCHANGED fn_call
    /\ UNCHANGED fnOthers

\* C28: calculate_misbad with oe_threshold = t counts a row in the high-OE
\* half iff its OE > t and in the low-OE half iff its OE <= t, each row in
\* exactly one half (no rows removed by the ExAC cutoffs).
C28_SplitAtOeThreshold ==
    (FnDone("calculate_misbad_split") /\ ~fn_call.use_exac_oe_cutoffs) =>
        \A r \in fn_result :
            /\ r.high <=> fn_call.oe > fn_call.oe_threshold
            /\ r.low <=> fn_call.oe <= fn_call.oe_threshold
            /\ r.high # r.low

\* --- filter_to_region_type (generic.py) ---
\* Where a locus of the reference genome can lie: an autosome, the
\* pseudoautosomal or the other part of chrX or chrY, or another contig
\* (mitochondrial, unplaced).
LocusTypes == {"autosome", "x_par", "x_nonpar", "y_par", "y_nonpar", "other"}

Regions == {"autosomes", "chrX", "chrY"}

in_x_nonpar(locus) == locus = "x_nonpar"
in_y_nonpar(locus) == locus = "y_nonpar"
in_autosome(locus) == locus = "autosome"
in_x_par(locus) == locus = "x_par"
in_autosome_or_par(locus) == locus \in {"autosome", "x_par", "y_par"}

\* The last branch keeping both pseudoautosomal regions.
FilterWithBothPars(locus, region) ==
    IF region = "chrX" THEN in_x_nonpar(locus)
    ELSE IF region = "chrY" THEN in_y_nonpar(locus)
    ELSE in_autosome_or_par(locus)

\* Whether the filter for region keeps a row at locus.
filter_to_region_type(locus, region) ==
    IF region = "chrX" THEN in_x_nonpar(locus)
    ELSE IF region = "chrY" THEN in_y_nonpar(locus)
    ELSE in_autosome(locus) \/ in_x_par(locus)

RegionCalls == [name : {"filter_to_region_type"}, locus : LocusTypes]

\* The three calls of prep-for-constraint on one row: the regions whose
\* filtered table holds it.
FnFilterToRegionType ==
    /\ fn_pc = "call"
    /\ fn_call.name = "filter_to_region_type"
    /\ fn_result' = {{region \in Regions :
                        filter_to_region_type(fn_call.locus, region)}}
    /\ fn_pc' = "done"
    /\ UNCHANGED fn_call
    /\ UNCHANGED fnOthers

\* C29 as stated: every input row is retained by exactly one of the three
\* calls with region autosomes, chrX and chrY.
C29_ExactlyOneRegion ==
    FnDone("filter_to_region_type") =>
        \A kept \in fn_result : Cardinality(kept) = 1

\* C29, amended: every input row is retained by at most one of the three
\* calls: a row on an autosome or in the chrX pseudoautosomal region by
\* 'autosomes', a row in the rest of chrX by 'chrX', a row in the
\* non-pseudoautosomal part of chrY by 'chrY'; a row in the chrY
\* pseudoautosomal region or on any other contig is retained by none.
C29_AtMostOneRegion ==
    FnDone("filter_to_region_type") =>
        \A kept \in fn_result :
            /\ Cardinality(kept) <= 1
            /\ fn_call.locus \in {"autosome", "x_par"} => kept = {"autosomes"}
            /\ fn_call.locus = "x_nonpar" => kept = {"chrX"}
            /\ fn_call.locus = "y_nonpar" => kept = {"chrY"}
            /\ fn_call.locus \in {"y_par", "other"} => kept = {}

\* A row in the pseudoautosomal region of chrY is in none of the three tables.
C29_Witness ==
    /\ FnDone("filter_to_region_type")
    /\ fn_call.locus = "y_par"
    /\ fn_result = {{}}

fnInit ==
    /\ fn_pc = "call"
    /\ \/ fn_call \in CoverageCalls
       \/ fn_call \in ObsExpCalls
       \/ fn_call \in KeepCalls
       \/ fn_call \in MisbadCalls
       \/ fn_call \in MpcCalls
       \/ fn_call \in BlosumCalls
       \/ fn_call \in PopPathCalls
       \/ fn_call \in SectionCalls
       \/ fn_call \in ExpCalls
       \/ fn_call \in SplitCalls
       \/ fn_call \in RegionCalls
    /\ fn_result = {}

fnNext ==
    \/ FnCoverageCorrection \/ FnObsExp \/ FnOverallOe \/ FnKeepCriteria
    \/ FnCalculateMisbad
    \/ FnMpc
    \/ FnImportBlosum
    \/ FnPreparePopPath
    \/ FnSections
    \/ FnCalculateExp
    \/ FnSplitByOe
    \/ FnFilterToRegionType

\* ------------------------------------------------------------------------
\* run_batches_dataproc, two invocations at once
\* (rmc/pipeline/two_breaks/run_batches_dataproc.py, main)
\* Two worker processes run main for the same search number over disjoint
\* transcript lists and share the bucket that holds the output tables.  The
\* file_exists test and the write inside process_section_group are separate
\* statements, so the other worker may run between them.
\* ------------------------------------------------------------------------

Workers == {1, 2}

\* Both workers' arguments: the same search number, disjoint transcript lists.
WkArgs ==
    {a \in [Workers -> {r \in RbdArgs : ~r.run_ttn}] :
        /\ a[1].search_num = a[2].search_num
        /\ a[1].group_size = a[2].group_size
        /\ a[1].read_if_exists = a[2].read_if_exists
        /\ \A i \in DOMAIN a[1].transcripts_to_run, j \in DOMAIN a[2].transcripts_to_run :
               a[1].transcripts_to_run[i] # a[2].transcripts_to_run[j]}

\* output_ht of the group worker w is at.
WkOutputHt(w) == OutputHt(wk_args[w], wk_counter[w])

WkGroups(w) == TranscriptGroups(wk_args[w])

wkIdle ==
    /\ wk_pc = [w \in Workers |-> "idle"]
    /\ wk_args = <<>>
    /\ wk_counter = [w \in Workers |-> 0]
    /\ wk_files = <<>>
    /\ wk_writers = <<>>
    /\ wk_exc = [w \in Workers |-> ""]

\* A fresh search number: no output table exists yet.
wkInit ==
    /\ wk_pc = [w \in Workers |-> "start"]
    /\ wk_args \in WkArgs
    /\ wk_counter = [w \in Workers |-> 0]
    /\ wk_files = [p \in OutputPaths |-> "absent"]
    /\ wk_writers = [p \in OutputPaths |-> {}]
    /\ wk_exc = [w \in Workers |-> ""]

\* Lines 38-50: a worker builds its transcript_groups.
WkSplit ==
    \E w \in Workers :
        /\ wk_pc[w] = "start"
        /\ wk_pc' = [wk_pc EXCEPT ![w] = "loop"]
        /\ UNCHANGED <<wk_args, wk_counter, wk_files, wk_writers, wk_exc>>
        /\ UNCHANGED wkOthers

\* Lines 58-61: the worker finds its output path existing, DataException.
WkOutputExists ==
    \E w \in Workers :
        /\ wk_pc[w] = "loop"
        /\ wk_counter[w] < Len(WkGroups(w))
        /\ OutputBlocked(wk_files, WkOutputHt(w), wk_args[w].read_if_exists)
        /\ wk_exc' = [wk_exc EXCEPT ![w] = "DataException"]
        /\ wk_pc' = [wk_pc EXCEPT ![w] = "finally"]
        /\ UNCHANGED <<wk_args, wk_counter, wk_files, wk_writers>>
        /\ UNCHANGED wkOthers

\* Lines 58-61: the test passes and the worker goes on to the call.
WkOutputAbsent ==
    \E w \in Workers :
        /\ wk_pc[w] = "loop"
        /\ wk_counter[w] < Len(WkGroups(w))
        /\ ~OutputBlocked(wk_files, WkOutputHt(w), wk_args[w].read_if_exists)
        /\ wk_pc' = [wk_pc EXCEPT ![w] = "process"]
        /\ UNCHANGED <<wk_args, wk_counter, wk_files, wk_writers, wk_exc>>
        /\ UNCHANGED wkOthers

\* Lines 63-73: process_section_group writes the table at output_ht_path.
WkProcessGroup ==
    \E w \in Workers :
        /\ wk_pc[w] = "process"
        /\ wk_files' = process_section_group(wk_files, WkOutputHt(w))
        /\ wk_writers' = [wk_writers EXCEPT ![WkOutputHt(w)] = @ \cup {w}]
        /\ wk_counter' = [wk_counter EXCEPT ![w] = @ + 1]
        /\ wk_pc' = [wk_pc EXCEPT ![w] = "loop"]
        /\ UNCHANGED <<wk_args, wk_exc>>
        /\ UNCHANGED wkOthers

\* The for loop is exhausted.
WkLoopEnd ==
    \E w \in Workers :
        /\ wk_pc[w] = "loop"
        /\ wk_counter[w] >= Len(WkGroups(w))
        /\ wk_pc' = [wk_pc EXCEPT ![w] = "finally"]
        /\ UNCHANGED <<wk_args, wk_counter, wk_files, wk_writers, wk_exc>>
        /\ UNCHANGED wkOthers

\* Lines 75-77: finally, the log is copied and the process ends.
WkFinally ==
    \E w \in Workers :
        /\ wk_pc[w] = "finally"
        /\ wk_pc' = [wk_pc EXCEPT ![w] = "exit"]
        /\ UNCHANGED <<wk_args, wk_counter, wk_files, wk_writers, wk_exc>>
        /\ UNCHANGED wkOthers

wkNext ==
    \/ WkSplit
    \/ WkOutputExists
    \/ WkOutputAbsent
    \/ WkProcessGroup
    \/ WkLoopEnd
    \/ WkFinally

\* Within one worker the groups at different indices have different paths.
DistinctPathsWithinWorker ==
    \A w \in Workers : \A c, d \in 0..(Len(WkGroups(w)) - 1) :
        c # d => OutputHt(wk_args[w], c) # OutputHt(wk_args[w], d)

\* The path is a function of the search number and the index alone: the
\* groups two workers hold at the same index share their path.
SamePathAtSameIndex ==
    \A v, w \in Workers : \A c \in 0..(MaxTranscripts - 1) :
        OutputHt(wk_args[v], c) = OutputHt(wk_args[w], c)

\* A worker enters process_section_group only when its own test saw no table.
EntersOnlyWhenAbsent ==
    \A w \in Workers :
        (wk_pc[w] = "loop" /\ wk_pc'[w] = "process") =>
            wk_files[WkOutputHt(w)] = "absent"

\* A worker whose test sees a table fails with DataException and writes nothing.
FailsWhenPresent ==
    \A w \in Workers :
        (/\ wk_pc[w] = "loop"
         /\ wk_counter[w] < Len(WkGroups(w))
         /\ wk_files[WkOutputHt(w)] # "absent"
         /\ wk_pc'[w] # wk_pc[w]) =>
            /\ wk_exc'[w] = "DataException"
            /\ wk_files' = wk_files
            /\ wk_writers' = wk_writers

\* C30 (as stated): two workers running concurrently for one search number
\* over disjoint transcript lists never write the same output path, neither
\* overwrites a table the other wrote, and the groups of the two workers
\* map to different paths.
C30_NoSharedOutputPath ==
    wk_pc # [w \in Workers |-> "idle"] =>
        /\ \A p \in OutputPaths : Cardinality(wk_writers[p]) <= 1
        /\ \A c \in 0..(Len(WkGroups(1)) - 1), d \in 0..(Len(WkGroups(2)) - 1) :
               OutputHt(wk_args[1], c) # OutputHt(wk_args[2], d)

\* C30 (amended): distinct groups have distinct paths within one worker
\* only; the groups two workers hold at the same index share one path; a
\* worker enters process_section_group only if its own existence test saw
\* no table, and one whose test sees a table fails with DataException
\* without writing.
C30_DistinctWithinWorkerOnly ==
    [][/\ DistinctPathsWithinWorker
       /\ SamePathAtSameIndex
       /\ EntersOnlyWhenAbsent
       /\ FailsWhenPresent]_vars

\* Both workers passed the test before either wrote, and both wrote the
\* table of their first group at the same path.
C30_Witness ==
    /\ wk_pc # [w \in Workers |-> "idle"]
    /\ \E p \in OutputPaths : wk_writers[p] = Workers

\* ------------------------------------------------------------------------
\* Specifications
\* ------------------------------------------------------------------------
InitSearchForBreak == sfbInit /\ s2bIdle /\ rbdIdle /\ vtIdle /\ mhIdle /\ bsIdle /\ finIdle /\ simIdle /\ mpcIdle /\ fnIdle /\ wkIdle

SpecSearchForBreak == InitSearchForBreak /\ [][sfbNext]_vars

InitSearchForTwoBreaks == s2bInit /\ sfbIdle /\ rbdIdle /\ vtIdle /\ mhIdle /\ bsIdle /\ finIdle /\ simIdle /\ mpcIdle /\ fnIdle /\ wkIdle

SpecSearchForTwoBreaks == InitSearchForTwoBreaks /\ [][s2bNext]_vars

\* The loop is sequential code of one process: a step that can be taken is taken.
SpecSearchForTwoBreaksFair ==
    InitSearchForTwoBreaks /\ [][s2bNext]_vars /\ WF_vars(s2bNext)

InitRunBatchesDataproc == rbdInit /\ sfbIdle /\ s2bIdle /\ vtIdle /\ mhIdle /\ bsIdle /\ finIdle /\ simIdle /\ mpcIdle /\ fnIdle /\ wkIdle

SpecRunBatchesDataproc == InitRunBatchesDataproc /\ [][rbdNext]_vars

InitVerifyTranscripts == vtInit /\ sfbIdle /\ s2bIdle /\ rbdIdle /\ mhIdle /\ bsIdle /\ finIdle /\ simIdle /\ mpcIdle /\ fnIdle /\ wkIdle

SpecVerifyTranscripts == InitVerifyTranscripts /\ [][vtNext]_vars

InitMergeHts == mhInit /\ sfbIdle /\ s2bIdle /\ rbdIdle /\ vtIdle /\ bsIdle /\ finIdle /\ simIdle /\ mpcIdle /\ fnIdle /\ wkIdle

SpecMergeHts == InitMergeHts /\ [][mhNext]_vars

InitBreakSearch == bsInit /\ sfbIdle /\ s2bIdle /\ rbdIdle /\ vtIdle /\ mhIdle /\ finIdle /\ simIdle /\ mpcIdle /\ fnIdle /\ wkIdle

SpecBreakSearch == InitBreakSearch /\ [][bsNext]_vars

InitFinalize == finInit /\ sfbIdle /\ s2bIdle /\ rbdIdle /\ vtIdle /\ mhIdle /\ bsIdle /\ simIdle /\ mpcIdle /\ fnIdle /\ wkIdle

SpecFinalize == InitFinalize /\ [][finNext]_vars

InitSimulBreaks == simInit /\ sfbIdle /\ s2bIdle /\ rbdIdle /\ vtIdle /\ mhIdle /\ bsIdle /\ finIdle /\ mpcIdle /\ fnIdle /\ wkIdle

SpecSimulBreaks == InitSimulBreaks /\ [][simNext]_vars

InitCalculateMpc == mpcInit /\ sfbIdle /\ s2bIdle /\ rbdIdle /\ vtIdle /\ mhIdle /\ bsIdle /\ finIdle /\ simIdle /\ fnIdle /\ wkIdle

SpecCalculateMpc == InitCalculateMpc /\ [][mpcNext]_vars

InitExpressions == fnInit /\ sfbIdle /\ s2bIdle /\ rbdIdle /\ vtIdle /\ mhIdle /\ bsIdle /\ finIdle /\ simIdle /\ mpcIdle /\ wkIdle

SpecExpressions == InitExpressions /\ [][fnNext]_vars

InitConcurrentWorkers == wkInit /\ sfbIdle /\ s2bIdle /\ rbdIdle /\ vtIdle /\ mhIdle /\ bsIdle /\ finIdle /\ simIdle /\ mpcIdle /\ fnIdle

SpecConcurrentWorkers == InitConcurrentWorkers /\ [][wkNext]_vars
====
